---- MODULE Spec2Model ----
(***************************************************************************)
(* Apple Health import pipeline of lifebuddy (app/ingestion/apple_health.py) *)
(* as a state machine: timezone resolution, schema creation, streaming     *)
(* classification of the export's elements, timestamp normalisation, bulk  *)
(* save and daily aggregation.                                             *)
(*                                                                         *)
(* Strings are modelled by their parsed shape.  A timestamp is a day       *)
(* number and a minute of the day (seconds are carried unchanged by every  *)
(* operation and are left out); an offset string "+HHMM" is the record     *)
(* [sign, hh, mm]; SQL NULL / Python None is a record of its own.          *)
(***************************************************************************)
EXTENDS Integers, Sequences, FiniteSets, TLC

VARIABLES
    tz_env,               \* os.environ['TZ'] as the process sees it
    host_tz,              \* UTC offset (minutes) of the host's local zone
    pc,                   \* position of main() in the pipeline
    user_timezone,        \* AppleHealthParser.user_timezone
    export,               \* the export file: its elements in end-event order
    pos,                  \* number of elements whose end event was consumed
    parsed_records,       \* AppleHealthParser.parsed_records
    parsed_workouts,      \* AppleHealthParser.parsed_workouts
    parsed_sleep_records, \* AppleHealthParser.parsed_sleep_records
    counts,               \* parse_xml's counters
    db,                   \* the SQLite store (committed content)
    xml_exists,           \* os.path.exists(xml_path) when main() is entered
    run,                  \* number of the import invocation on this store
    before,               \* history: the store as this invocation found it
    observed,             \* what a reader's query saw of the store, and when
    sleep_result,         \* what get_sleep_data returned, and for which call
    tree,                 \* parse_xml's document tree: the elements under root
                          \* whose end event was consumed, as they are in memory
    open,                 \* the children, as they are in memory, of the element
                          \* whose end event comes next
    environ,              \* os.environ['LLM_PROVIDER'] of the API process
    chat,                 \* the /chat request being served, and its count
    service,              \* the HealthDataService instance
    answer                \* what a HealthDataService operation returned

vars == <<tz_env, host_tz, pc, user_timezone, export, pos, parsed_records,
          parsed_workouts, parsed_sleep_records, counts, db,
          xml_exists, run, before, observed, sleep_result, tree, open,
          environ, chat, service, answer>>

\* what an import step leaves alone: its inputs, the history, the reader
others == <<xml_exists, run, before, observed, sleep_result,
            environ, chat, service, answer>>

\* the API process: its environment, its request, its service
api == <<environ, chat, service, answer>>

\* the document tree of parse_xml
stream == <<tree, open>>

-----------------------------------------------------------------------------
(* Bounds of the model *)

\* elements per export file in Spec
MaxElems == 2
\* sleep Records per export file in SpecSleep
MaxSleepElems == 3
\* largest hours field of a TZ override in SpecTz (two digits are matched)
MaxTzHours == 25
\* import invocations on one store, and elements per export, in SpecRuns
MaxRuns == 2
MaxRunElems == 2
\* elements under the root per export file in SpecStream
MaxStreamElems == 4
\* /chat requests served in SpecChat
MaxRequests == 2
\* elements per export file in SpecService
MaxServiceElems == 2
\* elements per export file in SpecMixed
MaxMixedElems == 3

-----------------------------------------------------------------------------
(* Values shared by the definitions *)

Abs(x) == IF x < 0 THEN -x ELSE x

MinutesPerDay == 24 * 60

\* SQL NULL and a non-null number
NULL == [null |-> TRUE]
Val(n) == [null |-> FALSE, v |-> n]
\* a non-null AVG(): the exact quotient num / den
Avg(n, d) == [null |-> FALSE, num |-> n, den |-> d]

\* Python None for a timestamp
None == [fmt |-> "none"]

RECURSIVE SumSeq(_)
SumSeq(s) == IF s = <<>> THEN 0 ELSE Head(s) + SumSeq(Tail(s))

RECURSIVE SetToSortedSeq(_)
SetToSortedSeq(S) ==
    IF S = {} THEN <<>>
    ELSE LET m == CHOOSE x \in S : \A y \in S : x <= y
         IN  <<m>> \o SetToSortedSeq(S \ {m})

SeqMin(s) == CHOOSE x \in {s[i] : i \in DOMAIN s} : \A i \in DOMAIN s : x <= s[i]
SeqMax(s) == CHOOSE x \in {s[i] : i \in DOMAIN s} : \A i \in DOMAIN s : x >= s[i]

-----------------------------------------------------------------------------
(* get_user_timezone                                                       *)
(*                                                                         *)
(* tz_env is one of                                                        *)
(*   [kind |-> "unset"]   TZ absent or blank                               *)
(*   [kind |-> "nonutc"]  set, not starting with "UTC"                     *)
(*   [kind |-> "utcbad"]  starts with "UTC", the pattern does not match    *)
(*   [kind |-> "utc", sign, hours, hasMinutes, minutes, rest]              *)
(*        re.match succeeded: sign, the 1-2 digit hours, the optional      *)
(*        two-digit minutes group, and whether text follows the match      *)

\* total_minutes of a matched override (lines 39-45)
TzTotalMinutes(tz) ==
    LET hours == tz.hours
        minutes == IF tz.hasMinutes THEN tz.minutes ELSE 0
        total_minutes == hours * 60 + minutes
    IN  IF tz.sign = "-" THEN -total_minutes ELSE total_minutes

\* the offset string f"{offset_hours:+03d}{offset_mins:02d}" (lines 51-56)
FormatOffset(total_minutes) ==
    LET offset_hours == total_minutes \div 60
        offset_mins == Abs(total_minutes % 60)
    IN  [sign |-> IF offset_hours < 0 THEN "-" ELSE "+",
         hh |-> Abs(offset_hours),
         mm |-> IF offset_mins > 0 THEN offset_mins ELSE 0]

\* datetime.now().astimezone().strftime('%z') for a host at offset h
HostOffsetStr(h) ==
    [sign |-> IF h < 0 THEN "-" ELSE "+",
     hh |-> Abs(h) \div 60,
     mm |-> Abs(h) % 60]

\* the system-timezone fallback (lines 66-82)
HostFallback(host) ==
    [raised |-> FALSE,
     name |-> [kind |-> "host"],
     offset |-> HostOffsetStr(host),
     tzinfo |-> host]

\* datetime.timezone(timedelta(minutes = m)) raises ValueError unless the
\* offset is strictly between -24h and +24h
TimezoneRaises(m) == Abs(m) >= MinutesPerDay

get_user_timezone(tz, host) ==
    IF tz.kind = "utc"
    THEN LET total_minutes == TzTotalMinutes(tz)
         IN  IF TimezoneRaises(total_minutes)
             THEN [raised |-> TRUE]
             ELSE [raised |-> FALSE,
                   name |-> tz,
                   offset |-> FormatOffset(total_minutes),
                   tzinfo |-> total_minutes]
    ELSE HostFallback(host)

-----------------------------------------------------------------------------
(* _parse_date                                                             *)
(*                                                                         *)
(* A timestamp attribute of the export is one of                           *)
(*   [kind |-> "absent"]                       attribute missing or ''     *)
(*   [kind |-> "offset", day, min, sign, hh, mm]                           *)
(*                           'YYYY-MM-DD HH:MM:SS +HHMM' / '... -HHMM'     *)
(*   [kind |-> "naive", day, min, sep]         no offset suffix; sep is    *)
(*                           the character between date and time of day    *)
(*   [kind |-> "bad"]                          a date part that is no date *)
(*   [kind |-> "shortoffset", day, min]        '... -07'                   *)
(*   [kind |-> "textoffset", day, min]         '... -07xx'                 *)
(* and the value stored for it is one of                                   *)
(*   None                                                                  *)
(*   [fmt |-> "iso", day, min, off]      'YYYY-MM-DDTHH:MM:SS+HH:MM'       *)
(*   [fmt |-> "isonaive", day, min]      'YYYY-MM-DDTHH:MM:SS'             *)
(*   [fmt |-> "src", src]                the attribute's text, unchanged   *)

\* a faulty variant: the sign reaches the hours only,
\* timedelta(hours = sign * hours, minutes = minutes)
AppleTzOffsetSignOnHours(ts) ==
    LET sign == IF ts.sign = "-" THEN -1 ELSE 1
        hours == ts.hh
        minutes == ts.mm
    IN  sign * hours * 60 + minutes

\* timedelta(hours = sign * hours, minutes = sign * minutes) (lines 498-503)
AppleTzOffset(ts) ==
    LET sign == IF ts.sign = "-" THEN -1 ELSE 1
        hours == ts.hh
        minutes == ts.mm
    IN  sign * hours * 60 + sign * minutes

\* dt.replace(tzinfo = apple_tz).astimezone(tzinfo).isoformat() (lines 507-512)
AsTimezone(day, min, apple_off, tzinfo) ==
    LET utc == day * MinutesPerDay + min - apple_off
        local == utc + tzinfo
    IN  [fmt |-> "iso",
         day |-> local \div MinutesPerDay,
         min |-> local % MinutesPerDay,
         off |-> tzinfo]

\* a faulty variant: a string that does not parse is dropped
_parse_date_none_on_failure(ts, tzinfo) ==
    CASE ts.kind = "absent" -> None
      [] ts.kind = "offset" ->
            IF TimezoneRaises(AppleTzOffset(ts))
            THEN None
            ELSE AsTimezone(ts.day, ts.min, AppleTzOffset(ts), tzinfo)
      [] ts.kind = "naive" -> [fmt |-> "isonaive", day |-> ts.day, min |-> ts.min]
      [] OTHER -> None

\* a faulty variant: a string without offset is read as UTC and converted
_parse_date_naive_as_utc(ts, tzinfo) ==
    CASE ts.kind = "absent" -> None
      [] ts.kind = "offset" ->
            IF TimezoneRaises(AppleTzOffset(ts))
            THEN [fmt |-> "src", src |-> ts]
            ELSE AsTimezone(ts.day, ts.min, AppleTzOffset(ts), tzinfo)
      [] ts.kind = "naive" -> AsTimezone(ts.day, ts.min, 0, tzinfo)
      [] OTHER -> [fmt |-> "src", src |-> ts]

\* lines 483-523: int() of a short or non-numeric offset, fromisoformat of
\* a bad date part and timezone() of an offset of a day or more raise, and
\* the handler returns date_str
_parse_date(ts, tzinfo) ==
    CASE ts.kind = "absent" -> None
      [] ts.kind = "offset" ->
            IF TimezoneRaises(AppleTzOffset(ts))
            THEN [fmt |-> "src", src |-> ts]
            ELSE AsTimezone(ts.day, ts.min, AppleTzOffset(ts), tzinfo)
      [] ts.kind = "naive" -> [fmt |-> "isonaive", day |-> ts.day, min |-> ts.min]
      [] OTHER -> [fmt |-> "src", src |-> ts]

-----------------------------------------------------------------------------
(* SQLite's DATE() on a stored timestamp                                   *)

\* the largest hours field SQLite accepts in a "+HH:MM" suffix
SqliteMaxTzHours == 14

\* DATE(start_date): a text with a "+HH:MM" suffix is shifted to UTC before
\* its date is taken; a text SQLite cannot parse gives NULL
SqlDate(stored) ==
    CASE stored.fmt = "isonaive" -> Val(stored.day)
      [] stored.fmt = "iso" ->
            IF Abs(stored.off) \div 60 > SqliteMaxTzHours
            THEN NULL
            ELSE Val((stored.day * MinutesPerDay + stored.min - stored.off)
                     \div MinutesPerDay)
      [] OTHER -> NULL

-----------------------------------------------------------------------------
(* Elements of the export                                                  *)
(*                                                                         *)
(* An attribute holding a number or a word is one of                       *)
(*   [kind |-> "absent"], [kind |-> "num", v], [kind |-> "text", s]        *)

target_metrics ==
    {"HKQuantityTypeIdentifierActiveEnergyBurned",
     "HKQuantityTypeIdentifierHeartRate",
     "HKQuantityTypeIdentifierBasalEnergyBurned",
     "HKQuantityTypeIdentifierDistanceWalkingRunning",
     "HKQuantityTypeIdentifierStepCount",
     "HKQuantityTypeIdentifierAppleExerciseTime",
     "HKQuantityTypeIdentifierBodyMassIndex",
     "HKQuantityTypeIdentifierBodyMass",
     "HKQuantityTypeIdentifierBodyFatPercentage"}

sleep_metrics == {"HKCategoryTypeIdentifierSleepAnalysis"}

\* a faulty variant: a value that is no number reads as 0 instead of failing
FloatOrZero(attr) ==
    CASE attr.kind = "num" -> [ok |-> TRUE, v |-> attr.v]
      [] OTHER -> [ok |-> TRUE, v |-> 0]

\* float(elem.get(attr, '0')): the number, or "fails" on ValueError
FloatOrDefault(attr) ==
    CASE attr.kind = "absent" -> [ok |-> TRUE, v |-> 0]
      [] attr.kind = "num" -> [ok |-> TRUE, v |-> attr.v]
      [] OTHER -> [ok |-> FALSE]

NoRecord == [emitted |-> FALSE]

\* elem.clear() (line 279): the element stays where it is in the tree, with
\* no attribute and no child: elem.get() then gives its default
Clear(elem) ==
    [f \in DOMAIN elem |->
        CASE f = "tag" -> elem.tag
          [] f = "children" -> <<>>
          [] f \in {"type", "workoutActivityType"} -> ""
          [] OTHER -> [kind |-> "absent"]]

\* a faulty variant: every element is cleared at its own end event
AfterEndEventClearingAll(elem) == Clear(elem)

\* the element as the loop body leaves it at its end event (lines 276-279)
AfterEndEvent(elem) ==
    IF elem.tag \in {"Record", "Workout"} THEN Clear(elem) ELSE elem

\* the element in memory at its end event: its attributes as read, its
\* children as their own end events left them
InMemory(e, children) ==
    IF "children" \in DOMAIN e THEN [e EXCEPT !.children = children] ELSE e

_parse_health_record(elem, tzinfo) ==
    LET start_date == _parse_date(elem.startDate, tzinfo)
        end_date == _parse_date(elem.endDate, tzinfo)
        value == FloatOrDefault(elem.value)
    IN  IF ~value.ok
        THEN NoRecord
        ELSE [emitted |-> TRUE,
              record_type |-> elem.type,
              value |-> value.v,
              start_date |-> start_date,
              end_date |-> end_date]

\* (end_dt - start_dt) of two stored timestamps, in minutes; 0 when either
\* is None or fromisoformat / the subtraction raises (lines 408-416)
DurationMinutes(start_date, end_date) ==
    CASE start_date.fmt = "iso" /\ end_date.fmt = "iso" ->
            (end_date.day * MinutesPerDay + end_date.min - end_date.off)
            - (start_date.day * MinutesPerDay + start_date.min - start_date.off)
      [] start_date.fmt = "isonaive" /\ end_date.fmt = "isonaive" ->
            (end_date.day * MinutesPerDay + end_date.min)
            - (start_date.day * MinutesPerDay + start_date.min)
      [] OTHER -> 0

\* a faulty variant: the stage keeps the category value's own name
stage_map_unmapped(sleep_value) == sleep_value

stage_map(sleep_value) ==
    CASE sleep_value = "HKCategoryValueSleepAnalysisAsleepCore" -> "Core"
      [] sleep_value = "HKCategoryValueSleepAnalysisAsleepREM" -> "REM"
      [] sleep_value = "HKCategoryValueSleepAnalysisAsleepDeep" -> "Deep"
      [] OTHER -> sleep_value

\* value holds the duration in minutes (the code stores minutes / 60 hours)
_parse_sleep_record(elem, tzinfo) ==
    LET sleep_value == IF elem.value.kind = "text" THEN elem.value.s ELSE ""
        start_date == _parse_date(elem.startDate, tzinfo)
        end_date == _parse_date(elem.endDate, tzinfo)
        duration == DurationMinutes(start_date, end_date)
    IN  IF sleep_value = "HKCategoryValueSleepAnalysisInBed"
        THEN [emitted |-> TRUE,
              record_type |-> elem.type,
              value |-> duration,
              start_date |-> start_date,
              end_date |-> end_date,
              sleep_stage |-> "InBed",
              data_type |-> "total_time_in_bed"]
        ELSE IF sleep_value \in {"HKCategoryValueSleepAnalysisAsleepCore",
                                 "HKCategoryValueSleepAnalysisAsleepREM",
                                 "HKCategoryValueSleepAnalysisAsleepDeep"}
        THEN [emitted |-> TRUE,
              record_type |-> elem.type,
              value |-> duration,
              start_date |-> start_date,
              end_date |-> end_date,
              sleep_stage |-> stage_map(sleep_value),
              data_type |-> "sleep_stage"]
        ELSE NoRecord

\* a faulty variant: the sum of any statistic is taken as the energy
RECURSIVE WorkoutStatsOfAnyType(_, _)
WorkoutStatsOfAnyType(child_stats, s) ==
    IF child_stats = <<>> THEN s
    ELSE LET f == FloatOrDefault(Head(child_stats).sum)
         IN  WorkoutStatsOfAnyType(Tail(child_stats),
                                   <<IF f.ok THEN f.v ELSE 0, s[2]>>)

\* the loop over child_stats (lines 361-377): s = <<total_energy, total_distance>>
RECURSIVE WorkoutStats(_, _)
WorkoutStats(child_stats, s) ==
    IF child_stats = <<>> THEN s
    ELSE LET stat == Head(child_stats)
             f == FloatOrDefault(stat.sum)
             stat_value == IF f.ok THEN f.v ELSE 0
         IN  WorkoutStats(Tail(child_stats),
                CASE stat.type = "HKQuantityTypeIdentifierActiveEnergyBurned" ->
                        <<stat_value, s[2]>>
                  [] stat.type = "HKQuantityTypeIdentifierDistanceWalkingRunning" ->
                        <<s[1], stat_value>>
                  [] stat.type = "HKQuantityTypeIdentifierDistanceCycling" ->
                        <<s[1], stat_value>>
                  [] OTHER -> s)

_parse_workout(elem, tzinfo) ==
    LET start_date == _parse_date(elem.startDate, tzinfo)
        end_date == _parse_date(elem.endDate, tzinfo)
        d == FloatOrDefault(elem.duration)
        duration_minutes == IF d.ok THEN d.v ELSE 0
        child_stats == SelectSeq(elem.children,
                                 LAMBDA c : c.tag = "WorkoutStatistics")
        totals == WorkoutStats(child_stats, <<0, 0>>)
    IN  [emitted |-> TRUE,
         workout_type |-> elem.workoutActivityType,
         start_date |-> start_date,
         end_date |-> end_date,
         duration_minutes |-> duration_minutes,
         total_energy_burned |-> totals[1],
         total_distance_km |-> totals[2]]

-----------------------------------------------------------------------------
(* The store                                                               *)

EmptyStore ==
    [schema |-> FALSE,
     user_settings |-> <<>>,
     health_records |-> <<>>,
     daily_summaries |-> <<>>,
     workouts |-> <<>>,
     sleep_records |-> <<>>]

\* a faulty variant: user_settings receives the host's zone, detected anew,
\* whatever the run resolved
CreatedStoreFromHost(tz) ==
    [schema |-> TRUE,
     user_settings |-> <<[id |-> 1,
                          timezone_name |-> [kind |-> "host"],
                          timezone_offset |-> HostOffsetStr(host_tz)]>>,
     health_records |-> <<>>,
     daily_summaries |-> <<>>,
     workouts |-> <<>>,
     sleep_records |-> <<>>]

\* a faulty variant: the tables are created where missing, not dropped
CreatedStoreKeepingRows(tz) ==
    [db EXCEPT !.schema = TRUE,
               !.user_settings = <<[id |-> 1,
                                    timezone_name |-> tz.name,
                                    timezone_offset |-> tz.offset]>>]

\* a faulty variant: the timezone row is not written with the schema
CreatedStoreWithoutSettings(tz) ==
    [schema |-> TRUE,
     user_settings |-> <<>>,
     health_records |-> <<>>,
     daily_summaries |-> <<>>,
     workouts |-> <<>>,
     sleep_records |-> <<>>]

\* the store create_database commits: every table dropped and recreated,
\* user_settings holding the one row (1, name, offset) (lines 121-228)
CreatedStore(tz) ==
    [schema |-> TRUE,
     user_settings |-> <<[id |-> 1,
                          timezone_name |-> tz.name,
                          timezone_offset |-> tz.offset]>>,
     health_records |-> <<>>,
     daily_summaries |-> <<>>,
     workouts |-> <<>>,
     sleep_records |-> <<>>]

\* a faulty variant: the last row of the batch is not written
InsertRowsButLast(table, rows) ==
    table \o [i \in 1..(Len(rows) - 1) |->
                [id |-> Len(table) + i] @@ [f \in DOMAIN rows[i] \ {"emitted"} |-> rows[i][f]]]

\* INSERT of rows into an AUTOINCREMENT table
InsertRows(table, rows) ==
    table \o [i \in DOMAIN rows |->
                [id |-> Len(table) + i] @@ [f \in DOMAIN rows[i] \ {"emitted"} |-> rows[i][f]]]

\* start_date is declared NOT NULL in health_records, workouts and
\* sleep_records: a None start_date makes executemany raise IntegrityError
ViolatesNotNull(rows) == \E i \in DOMAIN rows : rows[i].start_date = None

\* the values CASE WHEN record_type = t THEN value END keeps of a group
CaseValues(rows, t) ==
    LET sel == SelectSeq(rows, LAMBDA r : r.record_type = t)
    IN  [i \in DOMAIN sel |-> sel[i].value]

SqlSum(vs) == IF vs = <<>> THEN NULL ELSE Val(SumSeq(vs))
SqlAvg(vs) == IF vs = <<>> THEN NULL ELSE Avg(SumSeq(vs), Len(vs))
SqlMin(vs) == IF vs = <<>> THEN NULL ELSE Val(SeqMin(vs))
SqlMax(vs) == IF vs = <<>> THEN NULL ELSE Val(SeqMax(vs))

\* the row the aggregation query yields for one group (lines 596-614)
SummaryRow(i, d, g) ==
    [id |-> i,
     date |-> d,
     steps |-> SqlSum(CaseValues(g, "HKQuantityTypeIdentifierStepCount")),
     active_energy_burned |->
        SqlSum(CaseValues(g, "HKQuantityTypeIdentifierActiveEnergyBurned")),
     basal_energy_burned |->
        SqlSum(CaseValues(g, "HKQuantityTypeIdentifierBasalEnergyBurned")),
     exercise_time_minutes |->
        SqlSum(CaseValues(g, "HKQuantityTypeIdentifierAppleExerciseTime")),
     distance_walking_km |->
        SqlSum(CaseValues(g, "HKQuantityTypeIdentifierDistanceWalkingRunning")),
     avg_heart_rate |-> SqlAvg(CaseValues(g, "HKQuantityTypeIdentifierHeartRate")),
     min_heart_rate |-> SqlMin(CaseValues(g, "HKQuantityTypeIdentifierHeartRate")),
     max_heart_rate |-> SqlMax(CaseValues(g, "HKQuantityTypeIdentifierHeartRate")),
     body_mass_kg |-> SqlAvg(CaseValues(g, "HKQuantityTypeIdentifierBodyMass")),
     body_mass_index |->
        SqlAvg(CaseValues(g, "HKQuantityTypeIdentifierBodyMassIndex")),
     body_fat_percentage |->
        SqlAvg(CaseValues(g, "HKQuantityTypeIdentifierBodyFatPercentage"))]

\* a faulty variant: the aggregation runs before the last row is stored
_generate_daily_summaries_early(health_records) ==
    LET stored == SubSeq(health_records, 1, Len(health_records) - 1)
        dated == SelectSeq(stored, LAMBDA r : ~SqlDate(r.start_date).null)
        dates == SetToSortedSeq({SqlDate(dated[i].start_date).v : i \in DOMAIN dated})
        group(d) == SelectSeq(dated, LAMBDA r : SqlDate(r.start_date).v = d)
    IN  [i \in DOMAIN dates |-> SummaryRow(i, dates[i], group(dates[i]))]

\* INSERT INTO daily_summaries SELECT ... FROM health_records
\* WHERE DATE(start_date) IS NOT NULL GROUP BY DATE(start_date) ORDER BY date
_generate_daily_summaries(health_records) ==
    LET dated == SelectSeq(health_records,
                           LAMBDA r : ~SqlDate(r.start_date).null)
        dates == SetToSortedSeq({SqlDate(dated[i].start_date).v : i \in DOMAIN dated})
        group(d) == SelectSeq(dated, LAMBDA r : SqlDate(r.start_date).v = d)
    IN  [i \in DOMAIN dates |-> SummaryRow(i, dates[i], group(dates[i]))]

\* the store save_to_database commits when no insert raises (lines 529-574)
SavedStore(store, records, workouts, sleeps) ==
    LET health == InsertRows(store.health_records, records)
    IN  [store EXCEPT
            !.health_records = health,
            !.workouts = InsertRows(store.workouts, workouts),
            !.sleep_records = InsertRows(store.sleep_records, sleeps),
            !.daily_summaries = _generate_daily_summaries(health)]

-----------------------------------------------------------------------------
(* HealthDataService.get_sleep_data                                        *)
(*                                                                         *)
(* Durations are held in minutes (the code holds minutes / 60 as a float   *)
(* of hours); a figure rounded by round(x, 1) is held in tenths of an hour.*)
(* sources and average_sleep_hours are not carried.                        *)

\* round(m / 60, 1) in tenths of an hour: the nearest tenth, which is what
\* Python gives for every m that is not an odd multiple of 3 minutes
RoundTenths(m) == (m + 3) \div 6

\* the position of a stored start_date in the text order of ORDER BY:
\* 'YYYY-MM-DDTHH:MM:SS' sorts just before the same text with an offset
StartDateKey(stored) ==
    (stored.day * MinutesPerDay + stored.min) * 2
        + (IF stored.fmt = "iso" THEN 1 ELSE 0)

\* the rows the query of get_sleep_data selects (lines 305-315):
\* WHERE DATE(start_date) >= start AND DATE(start_date) <= end
SleepQueryRows(sleep_records, start_date, end_date) ==
    LET sel == SelectSeq(sleep_records,
                         LAMBDA r : /\ ~SqlDate(r.start_date).null
                                    /\ SqlDate(r.start_date).v >= start_date
                                    /\ SqlDate(r.start_date).v <= end_date)
    IN  [i \in DOMAIN sel |->
            [sleep_date |-> SqlDate(sel[i].start_date).v,
             duration_hours |-> sel[i].value,
             start_date |-> sel[i].start_date,
             sleep_stage |-> sel[i].sleep_stage,
             data_type |-> sel[i].data_type]]

\* a faulty variant: ORDER BY start_date ASC
SleepQueryOrdersAscending(rows) ==
    {ord \in [DOMAIN rows -> DOMAIN rows] :
        /\ \A i, j \in DOMAIN rows : i # j => ord[i] # ord[j]
        /\ \A i, j \in DOMAIN rows :
              i < j => StartDateKey(rows[ord[i]].start_date)
                          <= StartDateKey(rows[ord[j]].start_date)}

\* ORDER BY start_date DESC (line 316): every order of the selected rows
\* that descends by start_date; rows of equal start_date come in any order
SleepQueryOrders(rows) ==
    {ord \in [DOMAIN rows -> DOMAIN rows] :
        /\ \A i, j \in DOMAIN rows : i # j => ord[i] # ord[j]
        /\ \A i, j \in DOMAIN rows :
              i < j => StartDateKey(rows[ord[i]].start_date)
                          >= StartDateKey(rows[ord[j]].start_date)}

\* the loop over results (lines 325-350); daily_sleep holds its entries in
\* order of insertion
RECURSIVE AggregateSleep(_, _)
AggregateSleep(results, daily_sleep) ==
    IF results = <<>> THEN daily_sleep
    ELSE LET record == Head(results)
             date == record.sleep_date
             ds == IF \E k \in DOMAIN daily_sleep : daily_sleep[k].date = date
                   THEN daily_sleep
                   ELSE Append(daily_sleep,
                               [date |-> date,
                                total_sleep_hours |-> 0,
                                time_in_bed_hours |-> 0,
                                sleep_stages |-> [Core |-> 0, REM |-> 0, Deep |-> 0],
                                data_source |-> "mixed"])
             k == CHOOSE k \in DOMAIN ds : ds[k].date = date
             entry ==
                IF record.data_type = "total_time_in_bed"
                THEN [ds[k] EXCEPT !.time_in_bed_hours = @ + record.duration_hours,
                                   !.data_source = "iPhone"]
                ELSE IF /\ record.data_type = "sleep_stage"
                        /\ record.sleep_stage \in {"Core", "REM", "Deep"}
                THEN [ds[k] EXCEPT
                        !.sleep_stages[record.sleep_stage] = @ + record.duration_hours,
                        !.data_source = "Apple Watch"]
                ELSE ds[k]
         IN  AggregateSleep(Tail(results), [ds EXCEPT ![k] = entry])

\* a faulty variant: the day's total is the sum of the stages whatever its
\* data_source
SleepDayOfStagesOnly(date_data) ==
    LET stages == date_data.sleep_stages
    IN  [date |-> date_data.date,
         total_sleep_hours |-> RoundTenths(stages.Core + stages.REM + stages.Deep),
         time_in_bed_hours |-> RoundTenths(date_data.time_in_bed_hours),
         sleep_stages |-> [st \in {"Core", "REM", "Deep"} |-> RoundTenths(stages[st])],
         data_source |-> date_data.data_source]

\* the second loop (lines 354-371): the day's total by its data_source, then
\* every figure rounded to one decimal
SleepDay(date_data) ==
    LET stages == date_data.sleep_stages
        total == IF date_data.data_source = "Apple Watch"
                 THEN stages.Core + stages.REM + stages.Deep
                 ELSE IF date_data.data_source = "iPhone"
                 THEN date_data.time_in_bed_hours
                 ELSE date_data.total_sleep_hours
    IN  [date |-> date_data.date,
         total_sleep_hours |-> RoundTenths(total),
         time_in_bed_hours |-> RoundTenths(date_data.time_in_bed_hours),
         sleep_stages |-> [st \in {"Core", "REM", "Deep"} |-> RoundTenths(stages[st])],
         data_source |-> date_data.data_source]

\* daily_breakdown.sort(key = date, reverse = True) (line 374)
RECURSIVE SortByDateDesc(_)
SortByDateDesc(days) ==
    IF days = <<>> THEN <<>>
    ELSE LET k == CHOOSE k \in DOMAIN days :
                    \A j \in DOMAIN days : days[k].date >= days[j].date
         IN  <<days[k]>> \o
             SortByDateDesc(SelectSeq(days, LAMBDA d : d.date # days[k].date))

\* get_sleep_data on the ordered result of its query (lines 319-393)
get_sleep_data(results) ==
    IF results = <<>>
    THEN [found |-> FALSE]
    ELSE LET daily_sleep == AggregateSleep(results, <<>>)
             daily_breakdown ==
                SortByDateDesc([k \in DOMAIN daily_sleep |-> SleepDay(daily_sleep[k])])
         IN  [found |-> TRUE,
              total_sleep_hours |->
                 SumSeq([k \in DOMAIN daily_breakdown |->
                            daily_breakdown[k].total_sleep_hours]),
              days_with_data |-> Len(daily_breakdown),
              apple_watch_days |->
                 Len(SelectSeq(daily_breakdown,
                               LAMBDA d : d.data_source = "Apple Watch")),
              iphone_days |->
                 Len(SelectSeq(daily_breakdown, LAMBDA d : d.data_source = "iPhone")),
              daily_breakdown |-> daily_breakdown,
              raw_records_count |-> Len(results)]

-----------------------------------------------------------------------------
(* The pipeline: main() *)

Unresolved == [resolved |-> FALSE]

\* the place in the export where the text stops being well-formed XML
NotWellFormed == [tag |-> "#not-well-formed"]

\* no query made yet; get_sleep_data not called yet
NotObserved == [read |-> FALSE]
NotCalled == [called |-> FALSE]

ZeroCounts ==
    [record_count |-> 0, workout_count |-> 0,
     target_records |-> 0, sleep_records |-> 0]

\* a faulty variant: the schema is rebuilt before the input file is looked for
FileNotFoundAfterCreate ==
    /\ pc = "start"
    /\ ~xml_exists
    /\ pc' = "exited"
    /\ db' = [EmptyStore EXCEPT !.schema = TRUE]
    /\ UNCHANGED <<others, stream, tz_env, host_tz, user_timezone, export, pos,
                   parsed_records, parsed_workouts, parsed_sleep_records,
                   counts>>

\* main() finds no input file and returns (lines 683-686)
FileNotFound ==
    /\ pc = "start"
    /\ ~xml_exists
    /\ pc' = "exited"
    /\ UNCHANGED <<others, stream, tz_env, host_tz, user_timezone, export, pos,
                   parsed_records, parsed_workouts, parsed_sleep_records,
                   counts, db>>

\* main() past the check of the input file (line 688):
\* AppleHealthParser.__init__ (lines 85-112)
Construct ==
    /\ pc = "start"
    /\ xml_exists
    /\ LET r == get_user_timezone(tz_env, host_tz)
       IN  IF r.raised
           THEN /\ pc' = "crashed"
                /\ UNCHANGED user_timezone
           ELSE /\ pc' = "constructed"
                /\ user_timezone' = [name |-> r.name,
                                     offset |-> r.offset,
                                     tzinfo |-> r.tzinfo]
    /\ parsed_records' = <<>>
    /\ parsed_workouts' = <<>>
    /\ parsed_sleep_records' = <<>>
    /\ UNCHANGED <<others, stream, tz_env, host_tz, export, pos, counts, db>>

\* AppleHealthParser.create_database (lines 114-231)
CreateDatabase ==
    /\ pc = "constructed"
    /\ db' = CreatedStore(user_timezone)
    /\ pc' = "created"
    /\ UNCHANGED <<others, stream, tz_env, host_tz, user_timezone, export, pos, parsed_records,
                   parsed_workouts, parsed_sleep_records, counts>>

\* parse_xml up to its loop (lines 233-247)
BeginParse ==
    /\ pc = "created"
    /\ counts' = ZeroCounts
    /\ tree' = <<>>
    /\ open' = <<>>
    /\ pc' = "parsing"
    /\ UNCHANGED <<others, tz_env, host_tz, user_timezone, export, pos, parsed_records,
                   parsed_workouts, parsed_sleep_records, db>>

\* the 'end' event of a child of the element being read (lines 249-279);
\* the exports nest no Record and no Workout, so nothing is extracted here
ChildEnd ==
    /\ pc = "parsing"
    /\ pos < Len(export)
    /\ "children" \in DOMAIN export[pos + 1]
    /\ Len(open) < Len(export[pos + 1].children)
    /\ LET child == export[pos + 1].children[Len(open) + 1]
       IN  /\ child.tag \notin {"Record", "Workout"}
           /\ open' = Append(open, AfterEndEvent(child))
    /\ UNCHANGED <<others, tree, tz_env, host_tz, pc, user_timezone, export, pos,
                   parsed_records, parsed_workouts, parsed_sleep_records,
                   counts, db>>

\* the 'end' event of an element under the root (lines 249-279)
ParseElement ==
    /\ pc = "parsing"
    /\ pos < Len(export)
    /\ export[pos + 1] # NotWellFormed
    /\ "children" \in DOMAIN export[pos + 1] =>
            Len(open) = Len(export[pos + 1].children)
    /\ pos' = pos + 1
    /\ tree' = Append(tree, AfterEndEvent(InMemory(export[pos + 1], open)))
    /\ open' = <<>>
    /\ LET elem == InMemory(export[pos + 1], open) IN
       IF elem.tag = "Record"
       THEN IF elem.type \in target_metrics
            THEN LET record_data == _parse_health_record(elem, user_timezone.tzinfo)
                 IN  /\ IF record_data.emitted
                        THEN /\ parsed_records' = Append(parsed_records, record_data)
                             /\ counts' = [counts EXCEPT
                                              !.target_records = @ + 1,
                                              !.record_count = @ + 1]
                        ELSE /\ UNCHANGED parsed_records
                             /\ counts' = [counts EXCEPT !.record_count = @ + 1]
                     /\ UNCHANGED <<parsed_sleep_records, parsed_workouts>>
            ELSE IF elem.type \in sleep_metrics
            THEN LET sleep_data == _parse_sleep_record(elem, user_timezone.tzinfo)
                 IN  /\ IF sleep_data.emitted
                        THEN /\ parsed_sleep_records' =
                                    Append(parsed_sleep_records, sleep_data)
                             /\ counts' = [counts EXCEPT
                                              !.sleep_records = @ + 1,
                                              !.record_count = @ + 1]
                        ELSE /\ UNCHANGED parsed_sleep_records
                             /\ counts' = [counts EXCEPT !.record_count = @ + 1]
                     /\ UNCHANGED <<parsed_records, parsed_workouts>>
            ELSE /\ counts' = [counts EXCEPT !.record_count = @ + 1]
                 /\ UNCHANGED <<parsed_records, parsed_sleep_records, parsed_workouts>>
       ELSE IF elem.tag = "Workout"
       THEN LET workout_data == _parse_workout(elem, user_timezone.tzinfo)
            IN  /\ parsed_workouts' = Append(parsed_workouts, workout_data)
                /\ counts' = [counts EXCEPT !.workout_count = @ + 1]
                /\ UNCHANGED <<parsed_records, parsed_sleep_records>>
       ELSE UNCHANGED <<parsed_records, parsed_sleep_records, parsed_workouts, counts>>
    /\ UNCHANGED <<others, tz_env, host_tz, pc, user_timezone, export, db>>

\* iterparse reaches text that is not well-formed XML: ParseError leaves
\* parse_xml and main() (line 249)
ParseFails ==
    /\ pc = "parsing"
    /\ pos < Len(export)
    /\ export[pos + 1] = NotWellFormed
    /\ pc' = "aborted"
    /\ UNCHANGED <<others, stream, tz_env, host_tz, user_timezone, export, pos,
                   parsed_records, parsed_workouts, parsed_sleep_records,
                   counts, db>>

\* the input is exhausted: parse_xml returns its counters and its tree is
\* released (lines 285-291)
EndParse ==
    /\ pc = "parsing"
    /\ pos = Len(export)
    /\ pc' = "parsed"
    /\ tree' = <<>>
    /\ open' = <<>>
    /\ UNCHANGED <<others, tz_env, host_tz, user_timezone, export, pos, parsed_records,
                   parsed_workouts, parsed_sleep_records, counts, db>>

\* AppleHealthParser.save_to_database (lines 525-576): an IntegrityError
\* leaves main() with the open transaction rolled back
SaveToDatabase ==
    /\ pc = "parsed"
    /\ IF \/ ViolatesNotNull(parsed_records)
          \/ ViolatesNotNull(parsed_workouts)
          \/ ViolatesNotNull(parsed_sleep_records)
       THEN /\ pc' = "aborted"
            /\ UNCHANGED db
       ELSE /\ pc' = "done"
            /\ db' = SavedStore(db, parsed_records, parsed_workouts,
                                parsed_sleep_records)
    /\ UNCHANGED <<others, stream, tz_env, host_tz, user_timezone, export, pos, parsed_records,
                   parsed_workouts, parsed_sleep_records, counts>>

\* main() is invoked again on the same store (lines 708-709): a new process,
\* a new environment and export file, the store as the last invocation left it
NewRun(tzs, exports) ==
    /\ pc \in {"done", "aborted", "crashed", "exited"}
    /\ run < MaxRuns
    /\ run' = run + 1
    /\ tz_env' \in tzs
    /\ export' \in exports
    /\ xml_exists' \in BOOLEAN
    /\ before' = [store |-> db,
                  completed |-> pc = "done",
                  same |-> /\ tz_env' = tz_env
                           /\ export' = export
                           /\ xml_exists' = xml_exists]
    /\ pc' = "start"
    /\ pos' = 0
    /\ user_timezone' = Unresolved
    /\ parsed_records' = <<>>
    /\ parsed_workouts' = <<>>
    /\ parsed_sleep_records' = <<>>
    /\ counts' = ZeroCounts
    /\ observed' = NotObserved
    /\ tree' = <<>>
    /\ open' = <<>>
    /\ UNCHANGED <<host_tz, db, sleep_result, api>>

\* HealthDataService._execute_query (lines 137-143): a reader's connection
\* sees the committed content of the store at the moment of the query
ExecuteQuery ==
    /\ ~observed.read
    /\ observed' = [read |-> TRUE, at |-> pc, store |-> db]
    /\ UNCHANGED <<api, stream, tz_env, host_tz, pc, user_timezone, export, pos, parsed_records,
                   parsed_workouts, parsed_sleep_records, counts, db,
                   xml_exists, run, before, sleep_result>>

\* a call of HealthDataService.get_sleep_data(days_back) on the store, on a
\* day that is `today` in the user's timezone (lines 299-393)
GetSleepData(todays, days) ==
    /\ db.schema
    /\ ~sleep_result.called
    /\ \E today \in todays, days_back \in days :
          LET end_date == today
              start_date == end_date - days_back
              rows == SleepQueryRows(db.sleep_records, start_date, end_date)
          IN  \E ord \in SleepQueryOrders(rows) :
                sleep_result' =
                    [called |-> TRUE,
                     at |-> pc,
                     start_date |-> start_date,
                     end_date |-> end_date,
                     report |-> get_sleep_data([i \in DOMAIN rows |-> rows[ord[i]]])]
    /\ UNCHANGED <<api, stream, tz_env, host_tz, pc, user_timezone, export, pos, parsed_records,
                   parsed_workouts, parsed_sleep_records, counts, db,
                   xml_exists, run, before, observed>>

-----------------------------------------------------------------------------
(* The /chat endpoint (app/api/main.py) and LLM_PROVIDER                   *)
(*                                                                         *)
(* An Optional[str] is [none |-> TRUE] or [none |-> FALSE, s |-> text];    *)
(* the variable of the environment is unset or set to a text, '' included. *)

NoneStr == [none |-> TRUE]
Str(t) == [none |-> FALSE, s |-> t]

Unset == [set |-> FALSE]
EnvValue(t) == [set |-> TRUE, value |-> t]

\* os.getenv("LLM_PROVIDER") (line 285)
Getenv(env) == IF env.set THEN Str(env.value) ELSE NoneStr

\* the truth value of an Optional[str]: None and '' are false
Truthy(x) == ~x.none /\ x.s # ""

\* the providers LLMProvider.get_llm knows (llm_provider.py, lines 17-28)
SupportedProviders == {"ollama", "openai", "anthropic", "google", "azure"}

\* the finally clause (lines 304-309)
RestoredEnviron(original_provider) ==
    IF Truthy(original_provider)
    THEN EnvValue(original_provider.s)
    ELSE Unset

Idle == [at |-> "idle", n |-> 0]

\* chat_message up to the call of the agent (lines 276-291 and 310-312): with
\* a provider in the request the variable is overridden
ChatBegin(providers) ==
    /\ chat.at \in {"idle", "returned"}
    /\ chat.n < MaxRequests
    /\ \E provider \in providers :
          /\ chat' = [at |-> IF Truthy(provider) THEN "overridden" ELSE "default",
                      n |-> chat.n + 1,
                      provider |-> provider,
                      original_provider |-> Getenv(environ),
                      prior |-> environ]
          /\ environ' = IF Truthy(provider) THEN EnvValue(provider.s) ELSE environ
    /\ UNCHANGED <<stream, tz_env, host_tz, pc, user_timezone, export, pos,
                   parsed_records, parsed_workouts, parsed_sleep_records,
                   counts, db, xml_exists, run, before, observed, sleep_result,
                   service, answer>>

\* the agent answers or an exception becomes a 500 (lines 288-320); a
\* provider get_llm does not know always raises; the finally clause runs on
\* both ways out of the override
ChatEnd ==
    /\ chat.at \in {"overridden", "default"}
    /\ \E status \in {200, 500} :
          /\ (chat.at = "overridden" /\ chat.provider.s \notin SupportedProviders)
                => status = 500
          /\ chat' = [at |-> "returned",
                      n |-> chat.n,
                      provider |-> chat.provider,
                      original_provider |-> chat.original_provider,
                      prior |-> chat.prior,
                      status |-> status]
    /\ environ' = IF chat.at = "overridden"
                  THEN RestoredEnviron(chat.original_provider)
                  ELSE environ
    /\ UNCHANGED <<stream, tz_env, host_tz, pc, user_timezone, export, pos,
                   parsed_records, parsed_workouts, parsed_sleep_records,
                   counts, db, xml_exists, run, before, observed, sleep_result,
                   service, answer>>

\* no service constructed yet; no operation called yet
NotConstructed == [constructed |-> FALSE, raised |-> FALSE]
NoAnswer == [op |-> "none"]

-----------------------------------------------------------------------------
(* Inputs: the environment and the export file *)

Absent == [kind |-> "absent"]
Num(n) == [kind |-> "num", v |-> n]
Text(s) == [kind |-> "text", s |-> s]

OffsetTs(day, min, sign, hh, mm) ==
    [kind |-> "offset", day |-> day, min |-> min, sign |-> sign, hh |-> hh, mm |-> mm]
\* 'YYYY-MM-DD HH:MM:SS', the export's form without its offset, and
\* 'YYYY-MM-DDTHH:MM:SS'
NaiveTs(day, min) == [kind |-> "naive", day |-> day, min |-> min, sep |-> " "]
NaiveIsoTs(day, min) == [kind |-> "naive", day |-> day, min |-> min, sep |-> "T"]
BadTs == [kind |-> "bad"]
ShortOffsetTs(day, min) == [kind |-> "shortoffset", day |-> day, min |-> min]
TextOffsetTs(day, min) == [kind |-> "textoffset", day |-> day, min |-> min]

Record(type, value, startDate, endDate) ==
    [tag |-> "Record", type |-> type, value |-> value,
     startDate |-> startDate, endDate |-> endDate]

Workout(workoutActivityType, startDate, endDate, duration, children) ==
    [tag |-> "Workout", workoutActivityType |-> workoutActivityType,
     startDate |-> startDate, endDate |-> endDate,
     duration |-> duration, children |-> children]

WorkoutStatistics(type, sum) ==
    [tag |-> "WorkoutStatistics", type |-> type, sum |-> sum]

UtcOverride(sign, hours, hasMinutes, minutes, rest) ==
    [kind |-> "utc", sign |-> sign, hours |-> hours,
     hasMinutes |-> hasMinutes, minutes |-> minutes, rest |-> rest]

\* 23:30 on day 1 at -0700, and 02:00 on day 2 at +0530: each falls on
\* different calendar dates in UTC, at -0700 and at +0530
Ts2330West == OffsetTs(1, 23 * 60 + 30, "-", 7, 0)
Ts0200East == OffsetTs(2, 2 * 60, "+", 5, 30)
Ts0030West == OffsetTs(2, 30, "-", 7, 0)

\* TZ values and host offsets of Spec
TzEnvs ==
    {[kind |-> "unset"],
     UtcOverride("-", 7, FALSE, 0, FALSE),
     UtcOverride("+", 5, TRUE, 30, FALSE)}
HostOffsets == {0}

Elements ==
    \* samples of the nine target metrics
    {Record(t, Num(1), ts, ts) :
        t \in target_metrics, ts \in {Ts2330West, Ts0200East}}
    \cup
    {Record(t, Num(3), ts, ts) :
        t \in {"HKQuantityTypeIdentifierStepCount",
               "HKQuantityTypeIdentifierHeartRate",
               "HKQuantityTypeIdentifierBodyMass"},
        ts \in {Ts2330West, Ts0200East}}
    \cup
    \* a sample with no value, a non-numeric value, and each defective timestamp
    {Record("HKQuantityTypeIdentifierStepCount", v, Ts2330West, Ts2330West) :
        v \in {Absent, Text("abc")}}
    \cup
    {Record("HKQuantityTypeIdentifierStepCount", Num(1), ts, Ts2330West) :
        ts \in {Absent, BadTs, NaiveTs(1, 600), OffsetTs(1, 600, "+", 25, 0)}}
    \cup
    \* a metric outside the allowlist
    {Record("HKQuantityTypeIdentifierFlightsClimbed", Num(1), Ts2330West, Ts2330West)}
    \cup
    \* sleep analysis: the retained vocabulary, a discarded value, no start
    {Record("HKCategoryTypeIdentifierSleepAnalysis", Text(v), Ts2330West, Ts0030West) :
        v \in {"HKCategoryValueSleepAnalysisInBed",
               "HKCategoryValueSleepAnalysisAsleepCore",
               "HKCategoryValueSleepAnalysisAsleepREM",
               "HKCategoryValueSleepAnalysisAsleepDeep",
               "HKCategoryValueSleepAnalysisAwake"}}
    \cup
    {Record("HKCategoryTypeIdentifierSleepAnalysis",
            Text("HKCategoryValueSleepAnalysisInBed"), Absent, Ts0030West)}
    \cup
    \* workouts: no statistics, energy and distance, no start
    {Workout("Walking", Ts2330West, Ts0030West, Num(60), <<>>),
     Workout("Walking", Ts2330West, Ts0030West, Num(60),
             <<WorkoutStatistics("HKQuantityTypeIdentifierActiveEnergyBurned", Num(3)),
               WorkoutStatistics("HKQuantityTypeIdentifierDistanceWalkingRunning", Num(1))>>),
     Workout("Walking", Absent, Absent, Absent, <<>>),
     \* statistics of another kind only, and a sum that is no number
     Workout("Yoga", Ts2330West, Ts0030West, Num(60),
             <<WorkoutStatistics("HKQuantityTypeIdentifierBasalEnergyBurned", Num(3))>>),
     Workout("Yoga", Ts2330West, Ts0030West, Num(60),
             <<WorkoutStatistics("HKQuantityTypeIdentifierActiveEnergyBurned", Text("abc")),
               [tag |-> "WorkoutEvent"]>>)}
    \cup
    \* any other element of the export
    {[tag |-> "ExportDate"]}

\* TZ values of SpecTz: every shape the override pattern distinguishes
TzInputs ==
    {[kind |-> "unset"], [kind |-> "nonutc"], [kind |-> "utcbad"]}
    \cup
    {UtcOverride(sign, hours, FALSE, 0, rest) :
        sign \in {"+", "-"}, hours \in 0..MaxTzHours, rest \in BOOLEAN}
    \cup
    {UtcOverride(sign, hours, TRUE, minutes, rest) :
        sign \in {"+", "-"}, hours \in 0..MaxTzHours,
        minutes \in {0, 15, 30, 45, 59, 60, 99}, rest \in BOOLEAN}
TzHostOffsets == {-480, 0, 330}

\* TZ values, host offsets and timestamps of SpecDate
DateTzEnvs ==
    {[kind |-> "unset"]}
    \cup
    {UtcOverride(sign, hours, FALSE, 0, FALSE) :
        sign \in {"+", "-"}, hours \in {0, 7, 14, 23}}
    \cup
    {UtcOverride(sign, hours, TRUE, minutes, FALSE) :
        sign \in {"+", "-"}, hours \in {0, 5, 12}, minutes \in {30, 45}}
DateHostOffsets == {-480, 345}
DateElements ==
    {Record("HKQuantityTypeIdentifierStepCount", Num(1),
            OffsetTs(day, min, sign, hh, mm), OffsetTs(day, min, sign, hh, mm)) :
        day \in {1, 2}, min \in {0, 30, 12 * 60, 23 * 60 + 59},
        sign \in {"+", "-"}, hh \in {0, 3, 5, 7, 12, 14, 23, 24}, mm \in {0, 30, 45}}

-----------------------------------------------------------------------------
(* Specifications *)

InitOf(tzs, hosts, exports, exists, envs) ==
    /\ tz_env \in tzs
    /\ host_tz \in hosts
    /\ export \in exports
    /\ xml_exists \in exists
    /\ run = 1
    /\ before = [store |-> EmptyStore, completed |-> FALSE, same |-> FALSE]
    /\ observed = NotObserved
    /\ sleep_result = NotCalled
    /\ environ \in envs
    /\ chat = Idle
    /\ service = NotConstructed
    /\ answer = NoAnswer
    /\ tree = <<>>
    /\ open = <<>>
    /\ pos = 0
    /\ pc = "start"
    /\ user_timezone = Unresolved
    /\ parsed_records = <<>>
    /\ parsed_workouts = <<>>
    /\ parsed_sleep_records = <<>>
    /\ counts = ZeroCounts
    /\ db = EmptyStore

InitWith(tzs, hosts, exports, exists) ==
    InitOf(tzs, hosts, exports, exists, {Unset})

\* one import run over an export of at most MaxElems elements
Exports == UNION {[1..n -> Elements] : n \in 0..MaxElems}
Init == InitWith(TzEnvs, HostOffsets, Exports, {TRUE})
Next ==
    \/ Construct
    \/ CreateDatabase
    \/ BeginParse
    \/ ChildEnd
    \/ ParseElement
    \/ EndParse
    \/ SaveToDatabase
Spec == Init /\ [][Next]_vars

\* timezone resolution over every shape of TZ, up to the stored setting
InitTz == InitWith(TzInputs, TzHostOffsets, {<<>>}, {TRUE})
NextTz ==
    \/ Construct
    \/ CreateDatabase
SpecTz == InitTz /\ [][NextTz]_vars

\* one import run of a single sample, over source and local offsets
InitDate ==
    InitWith(DateTzEnvs, DateHostOffsets, {<<e>> : e \in DateElements}, {TRUE})
NextDate ==
    \/ Construct
    \/ CreateDatabase
    \/ BeginParse
    \/ ParseElement
    \/ EndParse
    \/ SaveToDatabase
SpecDate == InitDate /\ [][NextDate]_vars

\* successive import runs on one store, with a reader querying it
RunTzEnvs == {[kind |-> "unset"], UtcOverride("-", 7, FALSE, 0, FALSE)}
RunElements ==
    {Record("HKQuantityTypeIdentifierStepCount", Num(1), Ts2330West, Ts2330West),
     Record("HKQuantityTypeIdentifierStepCount", Num(1), Absent, Ts2330West),
     NotWellFormed}
RunExports == UNION {[1..n -> RunElements] : n \in 0..MaxRunElems}
InitRuns == InitWith(RunTzEnvs, HostOffsets, RunExports, BOOLEAN)
NextRuns ==
    \/ FileNotFound
    \/ Construct
    \/ CreateDatabase
    \/ BeginParse
    \/ ParseElement
    \/ ParseFails
    \/ EndParse
    \/ SaveToDatabase
    \/ NewRun(RunTzEnvs, RunExports)
    \/ ExecuteQuery
SpecRuns == InitRuns /\ [][NextRuns]_vars

\* one import run of sleep-analysis Records, and one call of get_sleep_data
Ts2300 == OffsetTs(1, 23 * 60, "+", 0, 0)
Ts2350 == OffsetTs(1, 23 * 60 + 50, "+", 0, 0)
Ts0030 == OffsetTs(2, 30, "+", 0, 0)
Ts0230 == OffsetTs(2, 2 * 60 + 30, "+", 0, 0)
SleepElements ==
    {Record("HKCategoryTypeIdentifierSleepAnalysis", Text(v), iv[1], iv[2]) :
        v \in {"HKCategoryValueSleepAnalysisInBed",
               "HKCategoryValueSleepAnalysisAsleepCore",
               "HKCategoryValueSleepAnalysisAsleepDeep"},
        iv \in {<<Ts2300, Ts2350>>, <<Ts0030, Ts0230>>}}
    \cup
    {Record("HKCategoryTypeIdentifierSleepAnalysis", Text(v), Ts0030, Ts0230) :
        v \in {"HKCategoryValueSleepAnalysisAsleepREM",
               "HKCategoryValueSleepAnalysisAwake"}}
SleepExports == UNION {[1..n -> SleepElements] : n \in 0..MaxSleepElems}
SleepTzEnvs == {[kind |-> "unset"], UtcOverride("-", 7, FALSE, 0, FALSE)}
Todays == {3}
DaysBack == {1, 7}
InitSleep == InitWith(SleepTzEnvs, HostOffsets, SleepExports, {TRUE})
NextSleep ==
    \/ Construct
    \/ CreateDatabase
    \/ BeginParse
    \/ ParseElement
    \/ EndParse
    \/ SaveToDatabase
    \/ GetSleepData(Todays, DaysBack)
SpecSleep == InitSleep /\ [][NextSleep]_vars

\* one import run of sleep-analysis Records of both origins that start at
\* different times of one day, and one call of get_sleep_data
Ts0100 == OffsetTs(2, 60, "+", 0, 0)
MixedElements ==
    {Record("HKCategoryTypeIdentifierSleepAnalysis", Text(v), iv[1], iv[2]) :
        v \in {"HKCategoryValueSleepAnalysisInBed",
               "HKCategoryValueSleepAnalysisAsleepCore",
               "HKCategoryValueSleepAnalysisAsleepREM"},
        iv \in {<<Ts0030, Ts0230>>, <<Ts0100, Ts0230>>}}
    \cup
    {Record("HKCategoryTypeIdentifierSleepAnalysis",
            Text("HKCategoryValueSleepAnalysisInBed"), Ts2300, Ts2350)}
MixedExports == UNION {[1..n -> MixedElements] : n \in 0..MaxMixedElems}
InitMixed == InitWith(SleepTzEnvs, HostOffsets, MixedExports, {TRUE})
NextMixed ==
    \/ Construct
    \/ CreateDatabase
    \/ BeginParse
    \/ ParseElement
    \/ EndParse
    \/ SaveToDatabase
    \/ GetSleepData(Todays, DaysBack)
SpecMixed == InitMixed /\ [][NextMixed]_vars

\* one import run over an export of workouts with their statistics, samples
\* and other elements, followed end event by end event
StreamElements ==
    {Record("HKQuantityTypeIdentifierStepCount", Num(1), Ts2330West, Ts2330West),
     Workout("Walking", Ts2330West, Ts0030West, Num(60),
             <<WorkoutStatistics("HKQuantityTypeIdentifierDistanceWalkingRunning", Num(1)),
               WorkoutStatistics("HKQuantityTypeIdentifierDistanceCycling", Num(3))>>),
     Workout("Cycling", Ts2330West, Ts0030West, Num(60),
             <<WorkoutStatistics("HKQuantityTypeIdentifierDistanceCycling", Num(3)),
               WorkoutStatistics("HKQuantityTypeIdentifierDistanceWalkingRunning", Num(1))>>),
     Workout("Cycling", Ts2330West, Ts0030West, Num(60),
             <<WorkoutStatistics("HKQuantityTypeIdentifierActiveEnergyBurned", Num(5)),
               WorkoutStatistics("HKQuantityTypeIdentifierDistanceCycling", Num(3))>>),
     [tag |-> "ExportDate"]}
StreamExports == UNION {[1..n -> StreamElements] : n \in 0..MaxStreamElems}
InitStream == InitWith({[kind |-> "unset"]}, HostOffsets, StreamExports, {TRUE})
NextStream ==
    \/ Construct
    \/ CreateDatabase
    \/ BeginParse
    \/ ChildEnd
    \/ ParseElement
    \/ EndParse
    \/ SaveToDatabase
SpecStream == InitStream /\ [][NextStream]_vars

\* one import run of a single sample, sleep interval or workout, over every
\* shape of its two timestamps
StampInputs ==
    {Absent, BadTs, ShortOffsetTs(1, 600), TextOffsetTs(1, 600),
     NaiveTs(1, 600), NaiveIsoTs(1, 600),
     OffsetTs(1, 600, "-", 7, 0), OffsetTs(1, 600, "+", 24, 0),
     OffsetTs(1, 600, "-", 25, 0)}
StampElements ==
    {Record("HKQuantityTypeIdentifierStepCount", Num(1), s, e) :
        s \in StampInputs, e \in StampInputs}
    \cup
    {Record("HKCategoryTypeIdentifierSleepAnalysis",
            Text("HKCategoryValueSleepAnalysisInBed"), s, e) :
        s \in StampInputs, e \in StampInputs}
    \cup
    {Workout("Walking", s, e, Num(60), <<>>) :
        s \in StampInputs, e \in StampInputs}
StampTzEnvs == {[kind |-> "unset"], UtcOverride("+", 5, TRUE, 30, FALSE)}
InitStamp ==
    InitWith(StampTzEnvs, HostOffsets, {<<e>> : e \in StampElements}, {TRUE})
NextStamp ==
    \/ Construct
    \/ CreateDatabase
    \/ BeginParse
    \/ ParseElement
    \/ EndParse
    \/ SaveToDatabase
SpecStamp == InitStamp /\ [][NextStamp]_vars

\* the API process serving /chat requests, from every prior state of
\* LLM_PROVIDER
PriorEnvirons ==
    {Unset, EnvValue(""), EnvValue("ollama"), EnvValue("openai"),
     EnvValue("bogus")}
ChatProviders ==
    {NoneStr, Str(""), Str("ollama"), Str("openai"), Str("anthropic"),
     Str("bogus")}
InitChat == InitOf({[kind |-> "unset"]}, HostOffsets, {<<>>}, {TRUE}, PriorEnvirons)
NextChat ==
    \/ ChatBegin(ChatProviders)
    \/ ChatEnd
SpecChat == InitChat /\ [][NextChat]_vars

-----------------------------------------------------------------------------
(* Properties *)

\* the UTC offset, in minutes, that a "+HHMM" / "-HHMM" suffix denotes
OffsetDenoted(sign, hh, mm) == (IF sign = "-" THEN -1 ELSE 1) * (hh * 60 + mm)

\* a source timestamp with an offset a real zone can have
HasValidOffset(ts) ==
    /\ ts.kind = "offset"
    /\ ts.mm < 60
    /\ ts.hh * 60 + ts.mm < MinutesPerDay

\* the calendar date of a source timestamp's instant at UTC offset `off`
DateAtOffset(ts, off) ==
    (ts.day * MinutesPerDay + ts.min - OffsetDenoted(ts.sign, ts.hh, ts.mm) + off)
        \div MinutesPerDay

\* the elements read so far
input == SubSeq(export, 1, pos)

\* the Record elements read so far that are allowlisted samples with a
\* numeric or absent value, in input order
IsSample(e) ==
    /\ e.tag = "Record"
    /\ e.type \in target_metrics
    /\ e.value.kind \in {"num", "absent"}
Samples == SelectSeq(input, IsSample)

\* the local calendar date a stored timestamp shows, when it shows one
ShowsLocalDate(stored) == stored.fmt \in {"iso", "isonaive"}

\* values of the stored samples of metric t whose local date is d
DayValues(d, t) ==
    LET sel == SelectSeq(db.health_records,
                         LAMBDA r : /\ ShowsLocalDate(r.start_date)
                                    /\ r.start_date.day = d
                                    /\ r.record_type = t)
    IN  [i \in DOMAIN sel |-> sel[i].value]

SummaryDates == {db.daily_summaries[j].date : j \in DOMAIN db.daily_summaries}

\* C1: every health record whose source timestamp carries an offset is
\* grouped by _generate_daily_summaries under the calendar date of its start
\* instant in the run's resolved local timezone
C1_GroupedUnderLocalDate ==
    pc = "done" =>
        \A i \in DOMAIN db.health_records :
            LET e == Samples[i]
                r == db.health_records[i]
                d == DateAtOffset(e.startDate, user_timezone.tzinfo)
            IN  HasValidOffset(e.startDate) =>
                    /\ SqlDate(r.start_date) = Val(d)
                    /\ d \in SummaryDates

\* C2: after a completed import, daily_summaries has a row for date d if and
\* only if some retained health_records row falls on local calendar date d
C2_SummaryIffLocalDate ==
    pc = "done" =>
        SummaryDates =
            {db.health_records[i].start_date.day :
                i \in {k \in DOMAIN db.health_records :
                          ShowsLocalDate(db.health_records[k].start_date)}}

SumColumns ==
    {<<"steps", "HKQuantityTypeIdentifierStepCount">>,
     <<"active_energy_burned", "HKQuantityTypeIdentifierActiveEnergyBurned">>,
     <<"basal_energy_burned", "HKQuantityTypeIdentifierBasalEnergyBurned">>,
     <<"exercise_time_minutes", "HKQuantityTypeIdentifierAppleExerciseTime">>,
     <<"distance_walking_km", "HKQuantityTypeIdentifierDistanceWalkingRunning">>}

\* C3: every sum-type column of every summary row is the exact sum of the
\* values of that local day's records of the metric, and NULL when the day
\* has no record of the metric
C3_SumColumnsExact ==
    pc = "done" =>
        \A j \in DOMAIN db.daily_summaries : \A c \in SumColumns :
            LET row == db.daily_summaries[j]
                vs == DayValues(row.date, c[2])
            IN  row[c[1]] = IF vs = <<>> THEN NULL ELSE Val(SumSeq(vs))

\* a non-null average column equal to the exact mean of vs
IsMeanOf(a, vs) ==
    /\ vs # <<>>
    /\ ~a.null
    /\ a.num * Len(vs) = SumSeq(vs) * a.den

AvgColumns ==
    {<<"body_mass_kg", "HKQuantityTypeIdentifierBodyMass">>,
     <<"body_mass_index", "HKQuantityTypeIdentifierBodyMassIndex">>,
     <<"body_fat_percentage", "HKQuantityTypeIdentifierBodyFatPercentage">>}

\* C4: avg/min/max_heart_rate of every summary row are the mean, least and
\* greatest of that local day's heart-rate records (NULL together when it
\* has none, min <= avg <= max otherwise), and the three body columns are
\* the means of that day's readings of their metric
C4_HeartAndBodyColumns ==
    pc = "done" =>
        \A j \in DOMAIN db.daily_summaries :
            LET row == db.daily_summaries[j]
                hr == DayValues(row.date, "HKQuantityTypeIdentifierHeartRate")
            IN  /\ IF hr = <<>>
                   THEN /\ row.avg_heart_rate = NULL
                        /\ row.min_heart_rate = NULL
                        /\ row.max_heart_rate = NULL
                   ELSE /\ IsMeanOf(row.avg_heart_rate, hr)
                        /\ row.min_heart_rate = Val(SeqMin(hr))
                        /\ row.max_heart_rate = Val(SeqMax(hr))
                        /\ row.min_heart_rate.v * row.avg_heart_rate.den
                              <= row.avg_heart_rate.num
                        /\ row.avg_heart_rate.num
                              <= row.max_heart_rate.v * row.avg_heart_rate.den
                /\ \A c \in AvgColumns :
                      LET vs == DayValues(row.date, c[2])
                      IN  IF vs = <<>> THEN row[c[1]] = NULL
                                       ELSE IsMeanOf(row[c[1]], vs)

\* the source date and time a stored timestamp denotes at the source's offset
BackToSource(stored, ts) ==
    LET utc == stored.day * MinutesPerDay + stored.min - stored.off
        at == utc + OffsetDenoted(ts.sign, ts.hh, ts.mm)
    IN  <<at \div MinutesPerDay, at % MinutesPerDay>>

\* C5: the value _parse_date stores for a source timestamp with an offset
\* denotes the source's instant: converted back to the source offset it
\* gives the original date and time
C5_RoundTrip ==
    \A i \in DOMAIN parsed_records :
        LET ts == Samples[i].startDate
            stored == parsed_records[i].start_date
        IN  HasValidOffset(ts) =>
                /\ stored.fmt = "iso"
                /\ BackToSource(stored, ts) = <<ts.day, ts.min>>

\* a conversion that moved the sample to another calendar date
C5_Witness ==
    \E i \in DOMAIN parsed_records :
        /\ HasValidOffset(Samples[i].startDate)
        /\ Samples[i].startDate.sign = "-"
        /\ Samples[i].startDate.mm = 30
        /\ parsed_records[i].start_date.fmt = "iso"
        /\ parsed_records[i].start_date.day # Samples[i].startDate.day
        /\ parsed_records[i].start_date.off = 345

\* the stored timestamps of everything parsed so far
StampsOf(s) == UNION {{s[i].start_date, s[i].end_date} : i \in DOMAIN s}
StoredTimestamps ==
    StampsOf(parsed_records) \cup StampsOf(parsed_workouts)
        \cup StampsOf(parsed_sleep_records)

\* C6: the timezone resolved at construction is the one of the whole run:
\* no step changes it, every conversion carries its tzinfo and user_settings
\* holds its name and offset
C6_TimezoneFixedForRun ==
    /\ [](pc \notin {"start", "crashed"} =>
            /\ \A t \in StoredTimestamps :
                  t.fmt = "iso" => t.off = user_timezone.tzinfo
            /\ db.schema =>
                  db.user_settings =
                      <<[id |-> 1,
                         timezone_name |-> user_timezone.name,
                         timezone_offset |-> user_timezone.offset]>>)
    /\ [][pc # "start" => user_timezone' = user_timezone]_vars

C6_Witness ==
    /\ pc = "done"
    /\ tz_env.kind = "utc"
    /\ Len(db.health_records) = 2
    /\ \A i \in DOMAIN db.health_records : db.health_records[i].start_date.fmt = "iso"
    /\ Len(db.user_settings) = 1

\* the offset a stored "+HHMM" string is read as
\* (HealthDataService._get_user_current_date)
ParseOffset(offset_str) ==
    LET sign == IF offset_str.sign = "+" THEN 1 ELSE -1
        hours == offset_str.hh
        minutes == offset_str.mm
    IN  sign * (hours * 60 + minutes)

\* an override UTC+H / UTC-H / UTC+H:MM / UTC-H:MM naming a real offset
ValidOverride(tz) ==
    /\ tz.kind = "utc"
    /\ ~tz.rest
    /\ tz.hasMinutes => tz.minutes < 60
    /\ Abs(TzTotalMinutes(tz)) < MinutesPerDay

\* C7: for every valid override the resolved offset string is unchanged by
\* parsing it into sign, hours and minutes and formatting it again
C7_OffsetStringRoundTrips ==
    (pc \in {"constructed", "created"} /\ ValidOverride(tz_env)) =>
        FormatOffset(ParseOffset(user_timezone.offset)) = user_timezone.offset

\* a TZ value that is set and is not a valid override
Malformed(tz) == tz.kind # "unset" /\ ~ValidOverride(tz)

\* C8: for every malformed TZ value get_user_timezone does not raise and
\* resolves to the host-local timezone
C8_MalformedFallsBack ==
    (pc # "start" /\ Malformed(tz_env)) =>
        /\ pc # "crashed"
        /\ user_timezone = [name |-> [kind |-> "host"],
                            offset |-> HostOffsetStr(host_tz),
                            tzinfo |-> host_tz]

IsNumericSample(e) ==
    /\ e.tag = "Record"
    /\ e.type \in target_metrics
    /\ e.value.kind = "num"

IsRetainedSleep(e) ==
    /\ e.tag = "Record"
    /\ e.type \in sleep_metrics
    /\ e.value.kind = "text"
    /\ e.value.s \in {"HKCategoryValueSleepAnalysisInBed",
                      "HKCategoryValueSleepAnalysisAsleepCore",
                      "HKCategoryValueSleepAnalysisAsleepREM",
                      "HKCategoryValueSleepAnalysisAsleepDeep"}

\* what parse_xml has emitted is one record per element satisfying Health
\* (for health_records) or IsRetainedSleep (for sleep_records) and nothing
\* for any other Record, and a completed run stores exactly those rows
ClassifiedBy(Health(_)) ==
    LET health == SelectSeq(input, Health)
        sleep == SelectSeq(input, IsRetainedSleep)
    IN  /\ pc # "crashed"
        /\ Len(parsed_records) = Len(health)
        /\ \A i \in DOMAIN parsed_records :
              i <= Len(health) => parsed_records[i].record_type = health[i].type
        /\ Len(parsed_sleep_records) = Len(sleep)
        /\ counts.target_records = Len(health)
        /\ counts.sleep_records = Len(sleep)
        /\ pc = "done" =>
              /\ Len(db.health_records) = Len(health)
              /\ Len(db.sleep_records) = Len(sleep)

C10_NoRecordDefectAborts ==
    /\ pc # "aborted"
    /\ pc = "done" =>
          /\ Len(db.health_records) = Len(parsed_records)
          /\ Len(db.workouts) = Len(parsed_workouts)
          /\ Len(db.sleep_records) = Len(parsed_sleep_records)

-----------------------------------------------------------------------------
(* Workouts and counters *)

IsWorkout(e) == e.tag = "Workout"
IsRecord(e) == e.tag = "Record"

\* e has a WorkoutStatistics child of one of the types whose sum is a number
HasStatistic(e, types) ==
    \E k \in DOMAIN e.children :
        /\ e.children[k].tag = "WorkoutStatistics"
        /\ e.children[k].type \in types
        /\ e.children[k].sum.kind = "num"

EnergyTypes == {"HKQuantityTypeIdentifierActiveEnergyBurned"}
DistanceTypes ==
    {"HKQuantityTypeIdentifierDistanceWalkingRunning",
     "HKQuantityTypeIdentifierDistanceCycling"}

C20_CountsMatchStore ==
    pc = "done" =>
        /\ counts.target_records = Len(db.health_records)
        /\ counts.workout_count = Len(db.workouts)
        /\ counts.sleep_records = Len(db.sleep_records)
        /\ counts.record_count =
              Cardinality({i \in DOMAIN export : IsRecord(export[i])})

\* a completed run that processed a Record it did not retain
C20_Witness ==
    /\ pc = "done"
    /\ counts.record_count = 2
    /\ counts.target_records = 1
    /\ counts.sleep_records = 0
    /\ Len(db.health_records) = 1

-----------------------------------------------------------------------------
(* Successive runs and readers *)

\* the rows a freshly created table holds after a batch insert of list
FreshRows(list) ==
    [i \in DOMAIN list |->
        [id |-> i] @@ [f \in DOMAIN list[i] \ {"emitted"} |-> list[i][f]]]

\* the summaries of a store are those of all its health records: one row
\* for each date DATE() gives a record, each sum column the sum over all
\* records of that date
SummariesOfAllRecords(store) ==
    LET dateOf(r) == SqlDate(r.start_date)
        recs == store.health_records
        sums == store.daily_summaries
    IN  /\ {sums[j].date : j \in DOMAIN sums} =
              {dateOf(recs[i]).v : i \in {k \in DOMAIN recs : ~dateOf(recs[k]).null}}
        /\ \A j, k \in DOMAIN sums : sums[j].date = sums[k].date => j = k
        /\ \A j \in DOMAIN sums : \A c \in SumColumns :
              LET sel == SelectSeq(recs, LAMBDA r : /\ dateOf(r) = Val(sums[j].date)
                                                    /\ r.record_type = c[2])
                  vs == [i \in DOMAIN sel |-> sel[i].value]
              IN  sums[j][c[1]] = IF vs = <<>> THEN NULL ELSE Val(SumSeq(vs))

\* this invocation has not written to the store
Untouched == pc \in {"start", "constructed", "crashed", "exited"}

\* C15: in every state of the store, daily_summaries is empty or is the
\* aggregation of all health_records of an input that was ingested to its
\* end: the one of this run once it has completed, or the one this run
\* found in the store and has not touched
C15_SummariesOnlyOfCompleteIngestion ==
    db.daily_summaries # <<>> =>
        /\ SummariesOfAllRecords(db)
        /\ \/ /\ pc = "done"
              /\ pos = Len(export)
              /\ db.health_records = FreshRows(parsed_records)
              /\ Len(parsed_records) = Len(Samples)
           \/ /\ Untouched
              /\ db = before.store

\* a run that failed after extracting a sample, on a store that held the
\* summaries of an earlier completed run
C15_Witness ==
    /\ pc = "aborted"
    /\ parsed_records # <<>>
    /\ before.completed
    /\ before.store.daily_summaries # <<>>
    /\ db.daily_summaries = <<>>
    /\ db.health_records = <<>>

\* C16: what a reader's query saw while a run that completed was under way
\* is the complete store the run found or the complete store the run left
C16_ReaderSeesWholeImport ==
    (pc = "done" /\ observed.read) =>
        \/ observed.store = before.store
        \/ observed.store = db

SchemaCreated == pc \in {"created", "parsing", "parsed", "done", "aborted"}

\* the one row create_database writes to user_settings
SettingsRow ==
    [id |-> 1,
     timezone_name |-> user_timezone.name,
     timezone_offset |-> user_timezone.offset]

RawRowCount == Len(db.health_records) + Len(db.workouts) + Len(db.sleep_records)

\* C18: in every run, once create_database has run user_settings holds
\* exactly the row (1, resolved name, resolved offset), and the store
\* already holds it, with no raw row, in the state in which raw rows are
\* first inserted
C18_SettingsRowFirst ==
    /\ [](SchemaCreated => db.user_settings = <<SettingsRow>>)
    /\ [][RawRowCount' > RawRowCount =>
            /\ RawRowCount = 0
            /\ db.user_settings = <<SettingsRow>>
            /\ db'.user_settings = db.user_settings]_vars

\* a second run, under another timezone, about to insert its rows
C18_Witness ==
    /\ run = 2
    /\ pc = "parsed"
    /\ parsed_records # <<>>
    /\ before.completed
    /\ before.store.health_records # <<>>
    /\ before.store.user_settings # db.user_settings
    /\ db.user_settings = <<SettingsRow>>
    /\ RawRowCount = 0

\* C19: an invocation that finds no input file goes no further than the
\* check and leaves the store exactly as it found it
C19_MissingInputWritesNothing ==
    ~xml_exists =>
        /\ pc \in {"start", "exited"}
        /\ db = before.store

\* an invocation without input file on a store a completed run had filled
C19_Witness ==
    /\ pc = "exited"
    /\ ~xml_exists
    /\ run = 2
    /\ before.completed
    /\ db.schema
    /\ db.health_records # <<>>
    /\ db.daily_summaries # <<>>

-----------------------------------------------------------------------------
(* Sleep *)

RetainedStages == {"InBed", "Core", "REM", "Deep"}
StagedStages == {"Core", "REM", "Deep"}

\* the stage a retained sleep-category value stands for
StageOfValue(v) ==
    CASE v = "HKCategoryValueSleepAnalysisInBed" -> "InBed"
      [] v = "HKCategoryValueSleepAnalysisAsleepCore" -> "Core"
      [] v = "HKCategoryValueSleepAnalysisAsleepREM" -> "REM"
      [] v = "HKCategoryValueSleepAnalysisAsleepDeep" -> "Deep"

\* the sleep Records with a retained value read so far, in input order
RetainedSleep == SelectSeq(input, IsRetainedSleep)

\* the instant of a source timestamp, in minutes, and the length of a Record
SrcInstant(ts) == ts.day * MinutesPerDay + ts.min - OffsetDenoted(ts.sign, ts.hh, ts.mm)
SrcDuration(e) == SrcInstant(e.endDate) - SrcInstant(e.startDate)

\* get_sleep_data was called on the store of the completed run
ReportedAfterImport == sleep_result.called /\ sleep_result.at = "done"

\* the date get_sleep_data files the i-th stored sleep row under
SleepDateOf(i) == SqlDate(db.sleep_records[i].start_date).v

InReportWindow(i) ==
    /\ SleepDateOf(i) >= sleep_result.start_date
    /\ SleepDateOf(i) <= sleep_result.end_date

RECURSIVE SumOfDurations(_)
SumOfDurations(I) ==
    IF I = {} THEN 0
    ELSE LET i == CHOOSE i \in I : TRUE
         IN  SrcDuration(RetainedSleep[i]) + SumOfDurations(I \ {i})

\* the stored rows of date d whose Record's value stands for one of stages
RowsOfDay(d, stages) ==
    {i \in DOMAIN db.sleep_records :
        /\ SleepDateOf(i) = d
        /\ InReportWindow(i)
        /\ StageOfValue(RetainedSleep[i].value.s) \in stages}

\* C11: every sleep row, parsed or stored, has a stage among InBed, Core,
\* REM and Deep, there is one row per Record with a retained value and none
\* for any other, and every figure get_sleep_data reports for a day is made
\* of the lengths of that day's Records with a retained value only
C11_OnlyRetainedStages ==
    /\ \A i \in DOMAIN parsed_sleep_records :
          parsed_sleep_records[i].sleep_stage \in RetainedStages
    /\ \A i \in DOMAIN db.sleep_records :
          db.sleep_records[i].sleep_stage \in RetainedStages
    /\ Len(parsed_sleep_records) = Len(RetainedSleep)
    /\ \A i \in DOMAIN parsed_sleep_records :
          i <= Len(RetainedSleep) =>
            parsed_sleep_records[i].sleep_stage =
                StageOfValue(RetainedSleep[i].value.s)
    /\ pc = "done" => Len(db.sleep_records) = Len(RetainedSleep)
    /\ (sleep_result.called /\ sleep_result.at # "done") =>
            ~sleep_result.report.found
    /\ ReportedAfterImport =>
          LET report == sleep_result.report
              window == {i \in DOMAIN db.sleep_records : InReportWindow(i)}
          IN  /\ report.found <=> window # {}
              /\ report.found =>
                    /\ report.raw_records_count = Cardinality(window)
                    /\ {report.daily_breakdown[k].date :
                            k \in DOMAIN report.daily_breakdown}
                          = {SleepDateOf(i) : i \in window}
                    /\ \A k \in DOMAIN report.daily_breakdown :
                          LET day == report.daily_breakdown[k]
                              minutes(stages) ==
                                  SumOfDurations(RowsOfDay(day.date, stages))
                          IN  /\ day.time_in_bed_hours =
                                    RoundTenths(minutes({"InBed"}))
                              /\ \A st \in StagedStages :
                                    day.sleep_stages[st] = RoundTenths(minutes({st}))
                              /\ day.total_sleep_hours \in
                                    {RoundTenths(minutes({"InBed"})),
                                     RoundTenths(minutes(StagedStages))}

\* a report over a store whose import read an Awake Record next to a Deep one
C11_Witness ==
    /\ ReportedAfterImport
    /\ Len(export) = 2
    /\ export[1].value.s = "HKCategoryValueSleepAnalysisAwake"
    /\ export[2].value.s = "HKCategoryValueSleepAnalysisAsleepDeep"
    /\ Len(db.sleep_records) = 1
    /\ sleep_result.report.found
    /\ sleep_result.report.raw_records_count = 1
    /\ sleep_result.report.daily_breakdown[1].sleep_stages.Deep > 0

\* C12, as claimed: a reported day holding only InBed records has a sleep
\* amount equal to the sum of their lengths; a reported day holding only
\* staged records has a sleep amount equal to the sum of its Core, REM and
\* Deep lengths and each stage's figure equal to that stage's sum
C12_SleepAmountIsSumOfDurations ==
    (ReportedAfterImport /\ sleep_result.report.found) =>
        \A k \in DOMAIN sleep_result.report.daily_breakdown :
            LET day == sleep_result.report.daily_breakdown[k]
                legacy == RowsOfDay(day.date, {"InBed"})
                staged == RowsOfDay(day.date, StagedStages)
            IN  /\ (legacy # {} /\ staged = {}) =>
                        day.total_sleep_hours * 6 = SumOfDurations(legacy)
                /\ (staged # {} /\ legacy = {}) =>
                        /\ day.total_sleep_hours * 6 = SumOfDurations(staged)
                        /\ \A st \in StagedStages :
                              day.sleep_stages[st] * 6 =
                                  SumOfDurations(RowsOfDay(day.date, {st}))

\* C12, amended: a reported day holding only InBed records has a sleep
\* amount equal to the sum of their lengths rounded to one decimal of an
\* hour; a reported day holding only staged records has a sleep amount
\* equal to the rounded sum of its Core, REM and Deep lengths and each
\* stage's figure equal to that stage's rounded sum
C12_SleepAmountIsRoundedSum ==
    (ReportedAfterImport /\ sleep_result.report.found) =>
        \A k \in DOMAIN sleep_result.report.daily_breakdown :
            LET day == sleep_result.report.daily_breakdown[k]
                legacy == RowsOfDay(day.date, {"InBed"})
                staged == RowsOfDay(day.date, StagedStages)
            IN  /\ (legacy # {} /\ staged = {}) =>
                        day.total_sleep_hours = RoundTenths(SumOfDurations(legacy))
                /\ (staged # {} /\ legacy = {}) =>
                        /\ day.total_sleep_hours = RoundTenths(SumOfDurations(staged))
                        /\ \A st \in StagedStages :
                              day.sleep_stages[st] =
                                  RoundTenths(SumOfDurations(RowsOfDay(day.date, {st})))

\* a report with a day of one 50-minute InBed interval (0.8 h) and a day of
\* a Core and a Deep interval of two hours each (4.0 h)
C12_Witness ==
    /\ ReportedAfterImport
    /\ sleep_result.report.found
    /\ sleep_result.report.days_with_data = 2
    /\ LET legacy == sleep_result.report.daily_breakdown[2]
           staged == sleep_result.report.daily_breakdown[1]
       IN  /\ legacy.data_source = "iPhone"
           /\ legacy.total_sleep_hours = 8
           /\ RowsOfDay(legacy.date, StagedStages) = {}
           /\ SumOfDurations(RowsOfDay(legacy.date, {"InBed"})) = 50
           /\ staged.data_source = "Apple Watch"
           /\ staged.total_sleep_hours = 40
           /\ staged.sleep_stages = [Core |-> 20, REM |-> 0, Deep |-> 20]
           /\ RowsOfDay(staged.date, {"InBed"}) = {}

\* the night a stored start belongs to: noon of one local day to the next
NightOf(stored) ==
    (stored.day * MinutesPerDay + stored.min - 12 * 60) \div MinutesPerDay

\* C13: when the store holds staged intervals only and the report covers
\* them all, the report has exactly one day for each night, and the day's
\* sleep amount is the sum, to the report's one decimal, of the lengths of
\* all intervals of that night
C13_OneDayPerNight ==
    (/\ ReportedAfterImport
     /\ db.sleep_records # <<>>
     /\ \A i \in DOMAIN db.sleep_records :
            /\ db.sleep_records[i].data_type = "sleep_stage"
            /\ InReportWindow(i)) =>
        LET report == sleep_result.report
            nightOf(i) == NightOf(db.sleep_records[i].start_date)
            nights == {nightOf(i) : i \in DOMAIN db.sleep_records}
            rowsOf(n) == {i \in DOMAIN db.sleep_records : nightOf(i) = n}
        IN  /\ report.found
            /\ report.days_with_data = Cardinality(nights)
            /\ \A n \in nights :
                  \E k \in DOMAIN report.daily_breakdown :
                      report.daily_breakdown[k].total_sleep_hours =
                          RoundTenths(SumOfDurations(rowsOf(n)))

-----------------------------------------------------------------------------
(* Streaming *)

Children(e) == IF "children" \in DOMAIN e THEN e.children ELSE <<>>

\* the parsed elements reachable from the root: those under the root, their
\* children, and the children read so far of the element being read
RetainedElements ==
    Len(tree) + SumSeq([i \in DOMAIN tree |-> Len(Children(tree[i]))]) + Len(open)

\* the most elements a single element of an export brings into memory:
\* itself and its children
LargestElement ==
    LET sizes == {1 + Len(Children(e)) : e \in StreamElements}
    IN  CHOOSE m \in sizes : \A n \in sizes : n <= m

\* C21: at every point of parse_xml's loop the number of parsed elements
\* still reachable from the root is at most what one element of the input
\* takes, however many elements the input has
C21_RetainedElementsBounded ==
    pc = "parsing" => RetainedElements <= LargestElement

\* the statistic children of e of one of the types
StatsOf(e, types) ==
    SelectSeq(e.children, LAMBDA c : /\ c.tag = "WorkoutStatistics"
                                     /\ c.type \in types)

\* the number the sum attribute of a statistic reads as
SumOf(c) == IF c.sum.kind = "num" THEN c.sum.v ELSE 0

\* what the source says of the last statistic of e of one of the types
LastSum(e, types) ==
    IF StatsOf(e, types) = <<>> THEN 0
    ELSE SumOf(StatsOf(e, types)[Len(StatsOf(e, types))])

\* C24: at the end event of an element under the root, its children are in
\* memory with every attribute the source gives them; what is extracted in
\* that step holds the element's own attributes and, for a Workout, its
\* statistics' sums; and the Record or Workout is in the tree, cleared,
\* when the step is over, the elements read before it left as they were
C24_ChildrenReadBeforeClear ==
    [][pos' = pos + 1 =>
        LET e == export[pos + 1]
        IN  /\ open = Children(e)
            /\ IsWorkout(e) =>
                  /\ Len(parsed_workouts') = Len(parsed_workouts) + 1
                  /\ LET w == parsed_workouts'[Len(parsed_workouts')]
                     IN  /\ w.workout_type = e.workoutActivityType
                         /\ w.total_energy_burned = LastSum(e, EnergyTypes)
                         /\ w.total_distance_km = LastSum(e, DistanceTypes)
            /\ IsSample(e) =>
                  /\ Len(parsed_records') = Len(parsed_records) + 1
                  /\ parsed_records'[Len(parsed_records')].record_type = e.type
            /\ SubSeq(tree', 1, pos) = tree
            /\ e.tag \in {"Record", "Workout"} =>
                  /\ Children(tree'[pos']) = <<>>
                  /\ \A f \in DOMAIN e \ {"tag", "children", "type",
                                           "workoutActivityType"} :
                        tree'[pos'][f].kind = "absent"
            /\ e.tag \notin {"Record", "Workout"} => tree'[pos'] = e]_vars

\* a Workout with two statistics was read after a sample: its distance was
\* extracted and both are in the tree, cleared
C24_Witness ==
    /\ pc = "parsing"
    /\ pos = 2
    /\ IsSample(export[1])
    /\ IsWorkout(export[2])
    /\ Len(export[2].children) = 2
    /\ Len(parsed_workouts) = 1
    /\ parsed_workouts[1].total_distance_km > 0
    /\ Len(parsed_records) = 1
    /\ tree = <<Clear(export[1]), Clear(export[2])>>
    /\ open = <<>>

WalkingRunning == {"HKQuantityTypeIdentifierDistanceWalkingRunning"}
Cycling == {"HKQuantityTypeIdentifierDistanceCycling"}

\* C25: the total_distance_km of every workout read is the sum of its
\* walking/running distance statistic when it has one, the sum of its
\* cycling distance statistic when it has that one only, and 0 when it has
\* neither, in whatever order the statistics come
C25_CyclingOnlyAsFallback ==
    LET ws == SelectSeq(input, IsWorkout)
    IN  \A i \in DOMAIN parsed_workouts :
            i <= Len(ws) =>
                parsed_workouts[i].total_distance_km =
                    IF StatsOf(ws[i], WalkingRunning) # <<>>
                    THEN LastSum(ws[i], WalkingRunning)
                    ELSE LastSum(ws[i], Cycling)

-----------------------------------------------------------------------------
(* Timestamps without offset, and timestamps that do not parse *)

\* what was extracted from the one element of the export, and what is stored
Extracted == parsed_records \o parsed_sleep_records \o parsed_workouts
StoredRows == db.health_records \o db.sleep_records \o db.workouts

\* the stored value is the text of the source timestamp, character by
\* character
SameText(stored, ts) ==
    \/ stored.fmt = "src" /\ stored.src = ts
    \/ /\ stored.fmt = "isonaive"
       /\ ts.kind = "naive"
       /\ ts.sep = "T"
       /\ stored.day = ts.day /\ stored.min = ts.min

\* C26, as claimed: every timestamp without offset suffix is returned as
\* the string it came as
C26_NaiveReturnedUnchanged ==
    (pos = 1 /\ Len(Extracted) = 1) =>
        /\ export[1].startDate.kind = "naive" =>
                SameText(Extracted[1].start_date, export[1].startDate)
        /\ export[1].endDate.kind = "naive" =>
                SameText(Extracted[1].end_date, export[1].endDate)

\* the stored value shows the date and time of day of the source timestamp,
\* unshifted and without offset, in the form 'YYYY-MM-DDTHH:MM:SS'
SameLocalTime(stored, ts) ==
    /\ stored.fmt = "isonaive"
    /\ stored.day = ts.day
    /\ stored.min = ts.min

\* C26, amended: every timestamp without offset suffix is taken as local:
\* the value returned shows its date and time of day, unshifted and without
\* offset, in ISO form, which is the input string exactly when that has the
\* 'T' between date and time
C26_NaiveKeepsLocalTime ==
    (pos = 1 /\ Len(Extracted) = 1) =>
        /\ export[1].startDate.kind = "naive" =>
                /\ SameLocalTime(Extracted[1].start_date, export[1].startDate)
                /\ SameText(Extracted[1].start_date, export[1].startDate)
                        <=> export[1].startDate.sep = "T"
        /\ export[1].endDate.kind = "naive" =>
                /\ SameLocalTime(Extracted[1].end_date, export[1].endDate)
                /\ SameText(Extracted[1].end_date, export[1].endDate)
                        <=> export[1].endDate.sep = "T"

\* a completed run under UTC+5:30 that stored a start without offset in the
\* export's form and an end without offset in ISO form
C26_Witness ==
    /\ pc = "done"
    /\ user_timezone.tzinfo = 330
    /\ export[1].startDate = NaiveTs(1, 600)
    /\ export[1].endDate = NaiveIsoTs(1, 600)
    /\ Len(StoredRows) = 1
    /\ StoredRows[1].start_date = [fmt |-> "isonaive", day |-> 1, min |-> 600]
    /\ StoredRows[1].end_date = StoredRows[1].start_date

\* a non-empty timestamp that does not parse: a bad date part, a short or
\* non-numeric offset, or an offset of a day or more
FailsToParse(ts) ==
    \/ ts.kind \in {"bad", "shortoffset", "textoffset"}
    \/ /\ ts.kind = "offset"
       /\ Abs(OffsetDenoted(ts.sign, ts.hh, ts.mm)) >= MinutesPerDay

\* C27: an element whose start or end timestamp does not parse is still
\* extracted, the run does not stop at it, and the value kept for that
\* timestamp is the original string; a completed run stores it so
C27_UnparseableReturnedAsIs ==
    LET e == export[1]
    IN  /\ (pos = 1 /\ (FailsToParse(e.startDate) \/ FailsToParse(e.endDate))) =>
              /\ Len(Extracted) = 1
              /\ FailsToParse(e.startDate) =>
                    Extracted[1].start_date = [fmt |-> "src", src |-> e.startDate]
              /\ FailsToParse(e.endDate) =>
                    Extracted[1].end_date = [fmt |-> "src", src |-> e.endDate]
        /\ FailsToParse(e.startDate) =>
              /\ pc \notin {"aborted", "crashed"}
              /\ pc = "done" =>
                    /\ Len(StoredRows) = 1
                    /\ StoredRows[1].start_date = [fmt |-> "src", src |-> e.startDate]

\* a completed run that stored a start with a short offset and an end with
\* an offset of 25 hours, both as they came
C27_Witness ==
    /\ pc = "done"
    /\ export[1].startDate.kind = "shortoffset"
    /\ export[1].endDate = OffsetTs(1, 600, "-", 25, 0)
    /\ Len(db.health_records) = 1
    /\ db.health_records[1].start_date.fmt = "src"
    /\ db.health_records[1].end_date.src = export[1].endDate
    /\ db.daily_summaries = <<>>

-----------------------------------------------------------------------------
(* The stored offset and the offset applied *)

\* C28: for every valid override, the offset string the run resolved, and
\* the one create_database stored, read as _get_user_current_date reads it,
\* is the offset of the tzinfo the run converts timestamps with
C28_OffsetStringDenotesTzinfo ==
    (ValidOverride(tz_env) /\ pc \in {"constructed", "created"}) =>
        /\ ParseOffset(user_timezone.offset) = user_timezone.tzinfo
        /\ pc = "created" =>
              ParseOffset(db.user_settings[1].timezone_offset) =
                  user_timezone.tzinfo

-----------------------------------------------------------------------------
(* Provider override *)

\* C22: when a /chat request that carried a provider override has returned,
\* with an answer or with an error, LLM_PROVIDER is set to the value it had
\* before the request, or unset if it was unset
C22_ProviderEnvRestored ==
    (chat.at = "returned" /\ Truthy(chat.provider)) => environ = chat.prior

-----------------------------------------------------------------------------
(* HealthDataService: construction and the operations over daily_summaries  *)
(* and workouts                                                            *)
(*                                                                         *)
(* An instant is a number of minutes, UTC; a date is a day number. Figures  *)
(* the code rounds from quotients of stored averages (average_heart_rate,   *)
(* current_weight, weight_change) are not carried.                          *)

\* _get_user_timezone (lines 43-101) in a process whose TZ is tz: the
\* override, formatted as get_user_timezone formats it (lines 56-67), else
\* the row of user_settings, else the host's zone
ServiceTimezone(tz, store, host) ==
    IF tz.kind = "utc"
    THEN [name |-> tz, offset |-> FormatOffset(TzTotalMinutes(tz))]
    ELSE IF \E i \in DOMAIN store.user_settings : store.user_settings[i].id = 1
    THEN LET result == store.user_settings[
                          CHOOSE i \in DOMAIN store.user_settings :
                              store.user_settings[i].id = 1]
         IN  [name |-> result.timezone_name, offset |-> result.timezone_offset]
    ELSE [name |-> [kind |-> "host"], offset |-> HostOffsetStr(host)]

\* _get_user_current_date (lines 111-135) at the instant now: the date at
\* the offset the string reads as; the host's date when the string has not
\* five characters or timezone() raises
_get_user_current_date(offset_str, now, host) ==
    LET total_minutes == ParseOffset(offset_str)
    IN  IF offset_str.hh >= 100 \/ TimezoneRaises(total_minutes)
        THEN (now + host) \div MinutesPerDay
        ELSE (now + total_minutes) \div MinutesPerDay

\* round(n / d) of Python: to the nearest integer, a tie to the even one
RoundHalfEven(n, d) ==
    LET q == n \div d
        r == n % d
    IN  IF 2 * r < d THEN q
        ELSE IF 2 * r > d THEN q + 1
        ELSE IF q % 2 = 0 THEN q ELSE q + 1

\* SELECT columns FROM daily_summaries WHERE date >= ? AND date <= ?
\* [AND column IS NOT NULL] ORDER BY date DESC
SummaryRows(store, start_date, end_date, column, columns) ==
    LET sel == SortByDateDesc(
                  SelectSeq(store.daily_summaries,
                            LAMBDA r : /\ r.date >= start_date
                                       /\ r.date <= end_date
                                       /\ column # "" => ~r[column].null))
    IN  [i \in DOMAIN sel |-> [c \in columns |-> sel[i][c]]]

\* row[column] or 0
OrZero(x) == IF x.null THEN 0 ELSE x.v

NoData == [found |-> FALSE]

\* get_daily_steps on the result of its query (lines 159-171)
get_daily_steps(results) ==
    IF results = <<>> THEN NoData
    ELSE LET total_steps == SumSeq([i \in DOMAIN results |-> results[i].steps.v])
         IN  [found |-> TRUE,
              total_steps |-> total_steps,
              average_steps |-> RoundHalfEven(total_steps, Len(results)),
              days_with_data |-> Len(results),
              daily_breakdown |-> results]

\* get_heart_rate_summary on the result of its query (lines 187-201)
get_heart_rate_summary(results) ==
    IF results = <<>> THEN NoData
    ELSE [found |-> TRUE,
          lowest_heart_rate |->
             SeqMin([i \in DOMAIN results |-> results[i].min_heart_rate.v]),
          highest_heart_rate |->
             SeqMax([i \in DOMAIN results |-> results[i].max_heart_rate.v]),
          days_with_data |-> Len(results),
          daily_breakdown |-> results]

\* get_recent_workouts on the result of its query (lines 215-229); the
\* columns summed are never NULL in a row the import wrote, so x or 0 is x,
\* and the totals are whole numbers here, which round() leaves
get_recent_workouts(results) ==
    IF results = <<>> THEN NoData
    ELSE [found |-> TRUE,
          total_workouts |-> Len(results),
          total_energy_burned |->
             SumSeq([i \in DOMAIN results |-> results[i].total_energy_burned]),
          total_duration_minutes |->
             SumSeq([i \in DOMAIN results |-> results[i].duration_minutes]),
          total_distance_km |->
             SumSeq([i \in DOMAIN results |-> results[i].total_distance_km]),
          recent_workouts |-> results]

\* get_weight_progress on the result of its query (lines 245-258)
get_weight_progress(results) ==
    IF results = <<>> THEN NoData
    ELSE [found |-> TRUE,
          newest |-> results[1].body_mass_kg,
          oldest |-> results[Len(results)].body_mass_kg,
          measurements_count |-> Len(results),
          recent_measurements |->
             SubSeq(results, 1, IF Len(results) < 5 THEN Len(results) ELSE 5)]

\* get_activity_summary on the result of its query (lines 275-297)
get_activity_summary(results) ==
    IF results = <<>> THEN NoData
    ELSE LET total(c) == SumSeq([i \in DOMAIN results |-> OrZero(results[i][c])])
         IN  [found |-> TRUE,
              total_steps |-> total("steps"),
              average_daily_steps |-> RoundHalfEven(total("steps"), Len(results)),
              total_active_energy |-> total("active_energy_burned"),
              total_exercise_minutes |-> total("exercise_time_minutes"),
              total_distance_km |-> total("distance_walking_km"),
              days_with_data |-> Len(results),
              daily_breakdown |-> results]

\* SELECT ... FROM workouts ORDER BY start_date DESC LIMIT ? (lines 205-213):
\* the rows in one of their descending orders, cut at limit; a negative
\* limit is none
WorkoutRows(store, ord, limit) ==
    LET rows == store.workouts
        n == IF limit < 0 \/ limit > Len(rows) THEN Len(rows) ELSE limit
    IN  [i \in 1..n |->
            [c \in {"workout_type", "start_date", "duration_minutes",
                    "total_energy_burned", "total_distance_km"} |->
                rows[ord[i]][c]]]

\* what the operation named op returns for days_back on the service's today
\* (lines 145-297); ord and sleep_ord are the orders the store gives the
\* rows of workouts and of sleep_records
Operation(op, store, today, days_back, ord, sleep_ord) ==
    LET end_date == today
        start_date == end_date - days_back
    IN  CASE op = "get_daily_steps" ->
                get_daily_steps(SummaryRows(store, start_date, end_date, "steps",
                                            {"date", "steps"}))
          [] op = "get_heart_rate_summary" ->
                get_heart_rate_summary(
                    SummaryRows(store, start_date, end_date, "avg_heart_rate",
                                {"date", "avg_heart_rate", "min_heart_rate",
                                 "max_heart_rate"}))
          [] op = "get_recent_workouts" ->
                get_recent_workouts(WorkoutRows(store, ord, days_back))
          [] op = "get_weight_progress" ->
                get_weight_progress(
                    SummaryRows(store, start_date, end_date, "body_mass_kg",
                                {"date", "body_mass_kg", "body_fat_percentage"}))
          [] op = "get_activity_summary" ->
                get_activity_summary(
                    SummaryRows(store, start_date, end_date, "",
                                {"date", "steps", "active_energy_burned",
                                 "exercise_time_minutes", "distance_walking_km"}))
          [] op = "get_sleep_data" ->
                LET rows == SleepQueryRows(store.sleep_records, start_date, end_date)
                IN  get_sleep_data([i \in DOMAIN rows |-> rows[sleep_ord[i]]])

\* metric_map of search_health_data (lines 397-404)
metric_map(metric_type) ==
    CASE metric_type = "steps" -> "get_daily_steps"
      [] metric_type = "heart_rate" -> "get_heart_rate_summary"
      [] metric_type = "workouts" -> "get_recent_workouts"
      [] metric_type = "weight" -> "get_weight_progress"
      [] metric_type = "activity" -> "get_activity_summary"
      [] metric_type = "sleep" -> "get_sleep_data"
      [] OTHER -> "unknown"

\* a method is called on an instance; one call is followed
Callable == service.constructed /\ answer.op = "none"

\* a faulty variant: connecting to a store that is missing creates it
ServiceConstructCreating(tzs) ==
    /\ ~service.constructed
    /\ \E tz \in tzs :
          IF ~db.schema
          THEN /\ service' = [constructed |-> FALSE, raised |-> TRUE]
               /\ db' = [EmptyStore EXCEPT !.schema = TRUE]
          ELSE /\ service' = [constructed |-> TRUE,
                              raised |-> FALSE,
                              user_timezone |-> ServiceTimezone(tz, db, host_tz)]
               /\ UNCHANGED db
    /\ UNCHANGED <<stream, tz_env, host_tz, pc, user_timezone, export, pos,
                   parsed_records, parsed_workouts, parsed_sleep_records,
                   counts, xml_exists, run, before, observed, sleep_result,
                   environ, chat, answer>>

\* HealthDataService.__init__ (lines 22-41) in a process whose TZ is tz:
\* _verify_database raises when the file or one of its tables is missing
ServiceConstruct(tzs) ==
    /\ ~service.constructed
    /\ \E tz \in tzs :
          IF ~db.schema
          THEN service' = [constructed |-> FALSE, raised |-> TRUE]
          ELSE service' = [constructed |-> TRUE,
                           raised |-> FALSE,
                           user_timezone |-> ServiceTimezone(tz, db, host_tz)]
    /\ UNCHANGED <<stream, tz_env, host_tz, pc, user_timezone, export, pos,
                   parsed_records, parsed_workouts, parsed_sleep_records,
                   counts, db, xml_exists, run, before, observed, sleep_result,
                   environ, chat, answer>>

\* what an operation over a window of days returns at the instant now
\* (lines 145-201 and 231-297)
WindowAnswer(op, now, days_back) ==
    LET today == _get_user_current_date(service.user_timezone.offset,
                                        now, host_tz)
    IN  [op |-> op, at |-> pc, now |-> now, days_back |-> days_back,
         result |-> Operation(op, db, today, days_back, <<>>, <<>>)]

\* get_daily_steps(days_back) (lines 145-171)
GetDailySteps(nows, days) ==
    /\ Callable
    /\ \E now \in nows, days_back \in days :
          answer' = WindowAnswer("get_daily_steps", now, days_back)
    /\ UNCHANGED <<stream, tz_env, host_tz, pc, user_timezone, export, pos,
                   parsed_records, parsed_workouts, parsed_sleep_records,
                   counts, db, xml_exists, run, before, observed, sleep_result,
                   environ, chat, service>>

\* get_heart_rate_summary(days_back) (lines 173-201)
GetHeartRateSummary(nows, days) ==
    /\ Callable
    /\ \E now \in nows, days_back \in days :
          answer' = WindowAnswer("get_heart_rate_summary", now, days_back)
    /\ UNCHANGED <<stream, tz_env, host_tz, pc, user_timezone, export, pos,
                   parsed_records, parsed_workouts, parsed_sleep_records,
                   counts, db, xml_exists, run, before, observed, sleep_result,
                   environ, chat, service>>

\* get_recent_workouts(limit) (lines 203-229)
GetRecentWorkouts(limits) ==
    /\ Callable
    /\ \E limit \in limits, ord \in SleepQueryOrders(db.workouts) :
          answer' = [op |-> "get_recent_workouts", at |-> pc, limit |-> limit,
                     result |-> Operation("get_recent_workouts", db, 0, limit,
                                          ord, <<>>)]
    /\ UNCHANGED <<stream, tz_env, host_tz, pc, user_timezone, export, pos,
                   parsed_records, parsed_workouts, parsed_sleep_records,
                   counts, db, xml_exists, run, before, observed, sleep_result,
                   environ, chat, service>>

\* get_weight_progress(days_back) (lines 231-258)
GetWeightProgress(nows, days) ==
    /\ Callable
    /\ \E now \in nows, days_back \in days :
          answer' = WindowAnswer("get_weight_progress", now, days_back)
    /\ UNCHANGED <<stream, tz_env, host_tz, pc, user_timezone, export, pos,
                   parsed_records, parsed_workouts, parsed_sleep_records,
                   counts, db, xml_exists, run, before, observed, sleep_result,
                   environ, chat, service>>

\* get_activity_summary(days_back) (lines 260-297)
GetActivitySummary(nows, days) ==
    /\ Callable
    /\ \E now \in nows, days_back \in days :
          answer' = WindowAnswer("get_activity_summary", now, days_back)
    /\ UNCHANGED <<stream, tz_env, host_tz, pc, user_timezone, export, pos,
                   parsed_records, parsed_workouts, parsed_sleep_records,
                   counts, db, xml_exists, run, before, observed, sleep_result,
                   environ, chat, service>>

\* search_health_data(metric_type, days_back) (lines 395-412), metric_type
\* in lower case
SearchHealthData(metrics, nows, days) ==
    /\ Callable
    /\ \E metric_type \in metrics, now \in nows, days_back \in days :
        LET op == metric_map(metric_type)
            today == _get_user_current_date(service.user_timezone.offset,
                                            now, host_tz)
            rows == SleepQueryRows(db.sleep_records, today - days_back, today)
        IN  IF op = "unknown"
            THEN answer' = [op |-> "search_health_data", at |-> pc,
                            metric_type |-> metric_type,
                            result |-> [error |-> "Unknown metric type"]]
            ELSE \E ord \in SleepQueryOrders(db.workouts),
                    sleep_ord \in SleepQueryOrders(rows) :
                    answer' = [op |-> "search_health_data", at |-> pc,
                               metric_type |-> metric_type, now |-> now,
                               days_back |-> days_back,
                               result |-> Operation(op, db, today, days_back,
                                                    ord, sleep_ord)]
    /\ UNCHANGED <<stream, tz_env, host_tz, pc, user_timezone, export, pos,
                   parsed_records, parsed_workouts, parsed_sleep_records,
                   counts, db, xml_exists, run, before, observed, sleep_result,
                   environ, chat, service>>

\* get_user_timezone_info (lines 103-109)
GetUserTimezoneInfo ==
    /\ Callable
    /\ answer' = [op |-> "get_user_timezone_info", at |-> pc,
                  result |-> [timezone_name |-> service.user_timezone.name,
                              timezone_offset |-> service.user_timezone.offset]]
    /\ UNCHANGED <<stream, tz_env, host_tz, pc, user_timezone, export, pos,
                   parsed_records, parsed_workouts, parsed_sleep_records,
                   counts, db, xml_exists, run, before, observed, sleep_result,
                   environ, chat, service>>

\* one import run, a service constructed on its store and one operation
ServiceTzEnvs == {[kind |-> "unset"], UtcOverride("-", 5, TRUE, 30, FALSE)}
ServiceProcessTzs == {[kind |-> "unset"], UtcOverride("+", 5, TRUE, 30, FALSE)}
ServiceElements ==
    {Record("HKQuantityTypeIdentifierStepCount", Num(1), Ts2330West, Ts2330West),
     Record("HKQuantityTypeIdentifierStepCount", Num(3), Ts0200East, Ts0200East),
     Record("HKQuantityTypeIdentifierHeartRate", Num(3), Ts2330West, Ts2330West),
     Record("HKQuantityTypeIdentifierBodyMass", Num(3), Ts0200East, Ts0200East),
     Workout("Walking", Ts2330West, Ts0030West, Num(60), <<>>),
     Record("HKCategoryTypeIdentifierSleepAnalysis",
            Text("HKCategoryValueSleepAnalysisAsleepCore"), Ts2330West, Ts0030West)}
ServiceExports == UNION {[1..n -> ServiceElements] : n \in 0..MaxServiceElems}
\* 05:45 UTC of day 2
ServiceNows == {2 * MinutesPerDay + 5 * 60 + 45}
ServiceDays == {0, 1}
InitService == InitWith(ServiceTzEnvs, HostOffsets, ServiceExports, {TRUE})
NextService ==
    \/ Construct
    \/ CreateDatabase
    \/ BeginParse
    \/ ParseElement
    \/ EndParse
    \/ SaveToDatabase
    \/ ServiceConstruct(ServiceProcessTzs)
    \/ GetDailySteps(ServiceNows, ServiceDays)
    \/ GetHeartRateSummary(ServiceNows, ServiceDays)
    \/ GetRecentWorkouts({-1, 1})
    \/ GetWeightProgress(ServiceNows, ServiceDays)
    \/ GetActivitySummary(ServiceNows, ServiceDays)
    \/ GetSleepData(Todays, {1})
    \/ SearchHealthData({"steps", "workouts", "sleep", "calories"},
                        ServiceNows, ServiceDays)
    \/ GetUserTimezoneInfo
SpecService == InitService /\ [][NextService]_vars

-----------------------------------------------------------------------------
(* Daily steps *)

\* the offset, in minutes, of the timezone the service holds by name
UserOffset(name) == IF name.kind = "utc" THEN TzTotalMinutes(name) ELSE host_tz

\* the rows of daily_summaries with steps whose date is one of the
\* days_back + 1 dates that end at today
StepsRowsInWindow(today, days_back) ==
    {r \in {db.daily_summaries[i] : i \in DOMAIN db.daily_summaries} :
        ~r.steps.null /\ r.date \in (today - days_back)..today}

\* C30: get_daily_steps(days_back = N) returns exactly the rows of
\* daily_summaries with non-null steps dated today - N .. today, today being
\* the date in the user's timezone, in descending order of date, with
\* total_steps their sum and days_with_data their number, and the no-data
\* message exactly when there is no such row
C30_DailyStepsWindow ==
    (answer.op = "get_daily_steps" /\ answer.at = "done") =>
        LET today == (answer.now + UserOffset(service.user_timezone.name))
                        \div MinutesPerDay
            rows == StepsRowsInWindow(today, answer.days_back)
            result == answer.result
        IN  IF rows = {}
            THEN ~result.found
            ELSE /\ result.found
                 /\ {[date |-> r.date, steps |-> r.steps] : r \in rows}
                       = {result.daily_breakdown[i] :
                             i \in DOMAIN result.daily_breakdown}
                 /\ \A i, j \in DOMAIN result.daily_breakdown :
                       i < j => result.daily_breakdown[i].date
                                   > result.daily_breakdown[j].date
                 /\ result.total_steps
                       = SumSeq([i \in DOMAIN result.daily_breakdown |->
                                   result.daily_breakdown[i].steps.v])
                 /\ result.days_with_data = Len(result.daily_breakdown)

-----------------------------------------------------------------------------
(* The query layer *)

\* C23: no operation of HealthDataService (its construction, the seven
\* reports, search_health_data, get_user_timezone_info) changes a row or a
\* table of the store: every step that constructs the service or returns an
\* answer leaves the store as it was
C23_QueryLayerReadOnly ==
    [][(service' # service \/ answer' # answer \/ sleep_result' # sleep_result)
          => db' = db]_vars

\* a service constructed on an imported store has answered from its rows
C23_Witness ==
    /\ pc = "done"
    /\ db.daily_summaries # <<>>
    /\ service.constructed
    /\ sleep_result.called
    /\ answer.op = "get_activity_summary"
    /\ answer.at = "done"
    /\ answer.result.found

-----------------------------------------------------------------------------
(* Days of both origins *)

\* the stored rows of date d that start earliest, by the text of start_date
EarliestOfDay(d) ==
    LET rows == RowsOfDay(d, RetainedStages)
    IN  {i \in rows :
            \A j \in rows : StartDateKey(db.sleep_records[i].start_date)
                               <= StartDateKey(db.sleep_records[j].start_date)}

\* C29: a reported day holding both InBed and staged records has the origin
\* of the day's earliest-starting record, the one processed last, as its
\* data_source and the sum of that origin's records alone as its
\* total_sleep_hours, and no reported day has data_source 'mixed'
C29_MixedDayOneOrigin ==
    (ReportedAfterImport /\ sleep_result.report.found) =>
        \A k \in DOMAIN sleep_result.report.daily_breakdown :
            LET day == sleep_result.report.daily_breakdown[k]
                legacy == RowsOfDay(day.date, {"InBed"})
                staged == RowsOfDay(day.date, StagedStages)
                earliest == EarliestOfDay(day.date)
            IN  /\ day.data_source # "mixed"
                /\ (legacy # {} /\ staged # {}) =>
                      \/ /\ earliest \cap legacy # {}
                         /\ day.data_source = "iPhone"
                         /\ day.total_sleep_hours
                               = RoundTenths(SumOfDurations(legacy))
                      \/ /\ earliest \cap staged # {}
                         /\ day.data_source = "Apple Watch"
                         /\ day.total_sleep_hours
                               = RoundTenths(SumOfDurations(staged))

\* a report of a day whose InBed record starts before its two staged
\* records, which are longer together
C29_Witness ==
    /\ ReportedAfterImport
    /\ sleep_result.report.found
    /\ Len(export) = 3
    /\ \E k \in DOMAIN sleep_result.report.daily_breakdown :
          LET day == sleep_result.report.daily_breakdown[k]
              legacy == RowsOfDay(day.date, {"InBed"})
              staged == RowsOfDay(day.date, StagedStages)
          IN  /\ Cardinality(staged) = 2
              /\ legacy # {}
              /\ EarliestOfDay(day.date) = legacy
              /\ day.data_source = "iPhone"
              /\ SumOfDurations(staged) > SumOfDurations(legacy)

====
